---- MODULE Spec2Model ----
(***************************************************************************)
(* Verification model of the skyweb airspace geometry core:                *)
(*   - core/services/route_corrector.py      (route altitude corrector)    *)
(*   - core/persistence/spatialite/db_manager.py   (store lifecycle)       *)
(*   - core/persistence/spatialite/airspace_query.py (intersection engine) *)
(*   - core/etl/spatialite_builder.py        (store builder)               *)
(*   - core/etl/cli.py, tile_generator.py, gcs_uploader.py (ETL run)       *)
(*   - core/etl/sia_parser.py, tile_generator.py (importer, tiles)         *)
(*   - core/persistence/repositories/base.py, route_repo.py (documents)    *)
(*   - core/persistence/spatialite/aerodrome_query.py (schema detection)   *)
(*                                                                         *)
(* Numbers.  Python floats are modelled by exact rationals <<num, den>>    *)
(* with den > 0.  In the corrector, latitudes are measured as arc length   *)
(* along one meridian of the sphere of radius EARTH_RADIUS_NM, so that the *)
(* haversine distance of two waypoints of a route is the absolute          *)
(* difference of their latitudes times ArcUnit nautical miles.             *)
(*                                                                         *)
(* Geometry.  In the query engine all points lie on one meridian and a     *)
(* polygon of the store is described by its trace on that meridian: a set  *)
(* of cells, cell i being the open interval (i, i+1) of latitude, in units *)
(* of CoordUnit degrees.  The polygon is the closure of its cells; a point *)
(* p is in its interior when the cells p-1 and p both belong to it, on its *)
(* boundary when exactly one does, and outside otherwise.                  *)
(***************************************************************************)
EXTENDS Integers, Sequences, FiniteSets, TLC

VARIABLES
    rc_in,      \* arguments of the pending/last correct_route call
    rc_out,     \* what correct_route returned ("pending" before the call)
    store_file, \* the file at _local_path: None, or <<rows of the view>>
    local_path, \* SpatiaLiteManager._local_path: None, or <<path>>
    q_out,      \* outcome of the last call made to the query service
    sv_in,      \* the Service/Frequence tables and arguments of _get_services
    sv_out,     \* what _get_services returned and the lookups it executed
    db_file,    \* the file at SpatiaLiteBuilder._db_path: None, or <<database>>
    builds,     \* the ParsedSIA data of the builds made on db_file, in order
    etl,        \* the ETL run of cli.main in progress: arguments, step, log
    out_dir,    \* the --output directory: the databases and the tile files
    gcs,        \* the buckets: store blobs, tile blobs, current_cycle pointer
    xml_file,   \* the document at xml_path: its root element, or Malformed
    parsed,     \* what parse_sia_xml returned or raised
    tile_db,    \* TileGenerator._db_path: the rows of airspace_spatial_indexed
    tiles_dir,  \* TileGenerator._output_dir: the set of its files [path, content]
    tile_out,   \* outcome of the last call of generate_all or tile_bbox
    firestore,  \* the Firestore documents [user, collection, id, data] of all users
    repo_out,   \* the last repository call: its operation and whether it returned
    ready,      \* SpatiaLiteManager.is_ready, for the concurrent callers
    conns,      \* the connections opened on the store, in the order of their opening
    calls,      \* each thread's call of the query service: its position and outcome
    started,    \* the number of calls started
    ad_store,   \* the schema variant of the store the aerodrome service reads
    use_new_schema, \* AerodromeQueryService._use_new_schema: None, or <<bool>>
    ad_calls,   \* each thread's aerodrome query: its position and the variant it used
    probes      \* the calls of _detect_schema made, and whether queries overlapped

vars == <<rc_in, rc_out, store_file, local_path, q_out, sv_in, sv_out,
          db_file, builds, etl, out_dir, gcs,
          xml_file, parsed,
          tile_db, tiles_dir, tile_out,
          firestore, repo_out,
          ready, conns, calls, started,
          ad_store, use_new_schema, ad_calls, probes>>
corrector_vars == <<rc_in, rc_out>>
query_vars == <<store_file, local_path, q_out>>
services_vars == <<sv_in, sv_out>>
builder_vars == <<db_file, builds>>
etl_vars == <<etl, out_dir, gcs>>
parser_vars == <<xml_file, parsed>>
tiles_vars == <<tile_db, tiles_dir, tile_out>>
repos_vars == <<firestore, repo_out>>
conn_vars == <<ready, conns, calls, started>>
schema_vars == <<ad_store, use_new_schema, ad_calls, probes>>

\* Python's Optional: None is <<>>, the value x is <<x>>
None == <<>>

\* the parts of the state a specification does not exercise stay as here
ServicesUnused == sv_in = None /\ sv_out = None
BuilderUnused == db_file = None /\ builds = <<>>
EtlUnused == etl = None /\ out_dir = None /\ gcs = None
CorrectorUnused == rc_in = None /\ rc_out = None
QueryUnused == store_file = None /\ local_path = None /\ q_out = None
ParserUnused == xml_file = None /\ parsed = None
TilesUnused == tile_db = None /\ tiles_dir = None /\ tile_out = None
ReposUnused == firestore = None /\ repo_out = None
ConnUnused == ready = None /\ conns = None /\ calls = None /\ started = None
SchemaUnused == ad_store = None /\ use_new_schema = None /\ ad_calls = None /\ probes = None

(***************************************************************************)
(* Rational arithmetic                                                     *)
(***************************************************************************)
Abs(x) == IF x < 0 THEN -x ELSE x

RECURSIVE GCD(_, _)
GCD(a, b) == IF b = 0 THEN a ELSE GCD(b, a % b)

\* canonical form of the rational n/d, d # 0: lowest terms, positive denominator
Norm(n, d) ==
    LET g == GCD(Abs(n), Abs(d))
        sn == IF d < 0 THEN -n ELSE n
    IN  <<sn \div g, Abs(d) \div g>>

RLess(p, q) == p[1] * q[2] < q[1] * p[2]
RGeq(p, q)  == ~RLess(p, q)
RMul(p, q)  == Norm(p[1] * q[1], p[2] * q[2])
RDiv(p, q)  == Norm(p[1] * q[2], p[2] * q[1])
RAdd(p, q)  == Norm(p[1] * q[2] + q[1] * p[2], p[2] * q[2])
RSub(p, q)  == Norm(p[1] * q[2] - q[1] * p[2], p[2] * q[2])
RAbs(p)     == <<Abs(p[1]), p[2]>>
RInt(n)     == <<n, 1>>

\* Python round(): nearest integer, ties to the even neighbour
Round(p) ==
    LET q == p[1] \div p[2]
        r == p[1] - q * p[2]
    IN  IF 2 * r < p[2] THEN q
        ELSE IF 2 * r > p[2] THEN q + 1
        ELSE IF q % 2 = 0 THEN q ELSE q + 1

(***************************************************************************)
(* core/services/route_corrector.py                                        *)
(***************************************************************************)
METERS_TO_FEET == <<82021, 25000>>      \* 3.28084
DEFAULT_CLIMB_RATE_FPM == 500
DEFAULT_GROUND_SPEED_KT == 100
DEFAULT_MIN_ALT_FT == 1000
DEFAULT_PATTERN_ALT_FT == 1000

\* nautical miles per unit of latitude (arc length on the meridian)
ArcUnit == <<1, 6>>

CorrectedWaypoint(name, latitude, longitude, altitude_ft, altitude_source, is_intermediate, original_altitude_m) ==
    [name |-> name, latitude |-> latitude, longitude |-> longitude,
     altitude_ft |-> altitude_ft, altitude_source |-> altitude_source,
     is_intermediate |-> is_intermediate,
     original_altitude_m |-> original_altitude_m]

\* great-circle distance in NM of two points of the meridian
_haversine_nm(lat1, lat2) == RMul(RAbs(RSub(lat2, lat1)), ArcUnit)

\* AssignedAltFt with the arrival computed from the departure ground
AssignedAltFt_DepGround(i, n, alt_m, dep_ground_ft, arr_ground_ft, pattern_alt_ft, min_alt_ft) ==
    LET alt_ft == RMul(alt_m, METERS_TO_FEET)
    IN  IF i = 1 \/ i = n THEN
            IF dep_ground_ft # None THEN RInt(dep_ground_ft[1] + pattern_alt_ft)
            ELSE IF RLess(alt_ft, RInt(50)) THEN RInt(min_alt_ft)
            ELSE alt_ft
        ELSE alt_ft

\* AssignedAltFt with the floor applied to every waypoint without ground
AssignedAltFt_FloorAll(i, n, alt_m, dep_ground_ft, arr_ground_ft, pattern_alt_ft, min_alt_ft) ==
    LET alt_ft == RMul(alt_m, METERS_TO_FEET)
    IN  IF i = 1 /\ dep_ground_ft # None THEN RInt(dep_ground_ft[1] + pattern_alt_ft)
        ELSE IF i = n /\ i # 1 /\ arr_ground_ft # None
            THEN RInt(arr_ground_ft[1] + pattern_alt_ft)
        ELSE IF RLess(alt_ft, RInt(50)) THEN RInt(min_alt_ft)
        ELSE alt_ft

\* the altitude in feet (before rounding) given to waypoint i of n
AssignedAltFt(i, n, alt_m, dep_ground_ft, arr_ground_ft, pattern_alt_ft, min_alt_ft) ==
    LET alt_ft == RMul(alt_m, METERS_TO_FEET)
    IN  IF i = 1 THEN
            IF dep_ground_ft # None THEN RInt(dep_ground_ft[1] + pattern_alt_ft)
            ELSE IF RLess(alt_ft, RInt(50)) THEN RInt(min_alt_ft)
            ELSE alt_ft
        ELSE IF i = n THEN
            IF arr_ground_ft # None THEN RInt(arr_ground_ft[1] + pattern_alt_ft)
            ELSE IF RLess(alt_ft, RInt(50)) THEN RInt(min_alt_ft)
            ELSE alt_ft
        ELSE alt_ft

AltitudeSource(i, n) ==
    IF i = 1 THEN "departure" ELSE IF i = n THEN "arrival" ELSE "segment"

_assign_altitudes(waypoints, dep_ground_ft, arr_ground_ft, pattern_alt_ft, min_alt_ft) ==
    [i \in 1..Len(waypoints) |->
        LET wp == waypoints[i]
        IN  CorrectedWaypoint(
                wp.name, wp.latitude, wp.longitude,
                Round(AssignedAltFt(i, Len(waypoints), wp.altitude_m, dep_ground_ft,
                                    arr_ground_ft, pattern_alt_ft, min_alt_ft)),
                AltitudeSource(i, Len(waypoints)),
                FALSE,
                wp.altitude_m)]

\* ClimbDistNm without the conversion of minutes to hours
ClimbDistNm_NoHour(alt_diff, climb_rate_fpm, ground_speed_kt) ==
    RMul(RInt(ground_speed_kt), Norm(alt_diff, climb_rate_fpm))

\* horizontal distance flown while changing altitude by alt_diff feet
ClimbDistNm(alt_diff, climb_rate_fpm, ground_speed_kt) ==
    LET time_min == Norm(alt_diff, climb_rate_fpm)
    IN  RDiv(RMul(RInt(ground_speed_kt), time_min), RInt(60))

\* PositionRatio measured from the start of the segment on every leg
PositionRatio_FromStart(climb_dist_nm, total_dist_nm, is_last_segment) ==
    RDiv(climb_dist_nm, total_dist_nm)

\* position ratio of the intermediate waypoint along the segment
PositionRatio(climb_dist_nm, total_dist_nm, is_last_segment) ==
    IF is_last_segment
    THEN RSub(RInt(1), RDiv(climb_dist_nm, total_dist_nm))
    ELSE RDiv(climb_dist_nm, total_dist_nm)

\* IntermediateName without the special case of the final descent
IntermediateName_Target(direction, start, end, target_alt, is_last_segment) ==
    direction \o "_" \o ToString(target_alt)

IntermediateName(direction, start, end, target_alt, is_last_segment) ==
    IF is_last_segment /\ direction = "DESC"
    THEN direction \o "_" \o ToString(end.altitude_ft)
    ELSE direction \o "_" \o ToString(target_alt)

\* the waypoint built once the guards of _calc_intermediate have passed
BuildIntermediate(start, end, target_alt, is_last_segment, climb_dist_nm, total_dist_nm) ==
    LET ratio == PositionRatio(climb_dist_nm, total_dist_nm, is_last_segment)
        lat == RAdd(start.latitude, RMul(RSub(end.latitude, start.latitude), ratio))
        lon == RAdd(start.longitude, RMul(RSub(end.longitude, start.longitude), ratio))
        direction == IF end.altitude_ft > start.altitude_ft THEN "CLIMB" ELSE "DESC"
    IN  CorrectedWaypoint(
            IntermediateName(direction, start, end, target_alt, is_last_segment),
            lat, lon,
            target_alt,
            IF direction = "CLIMB" THEN "intermediate_climb" ELSE "intermediate_desc",
            TRUE,
            RDiv(RInt(target_alt), METERS_TO_FEET))

\* NoIntermediate letting through a climb that takes exactly the whole leg
NoIntermediate_Strict(alt_diff, climb_dist_nm, total_dist_nm) ==
    \/ alt_diff < 100
    \/ RLess(total_dist_nm, climb_dist_nm)

\* does _calc_intermediate return None ?
NoIntermediate(alt_diff, climb_dist_nm, total_dist_nm) ==
    \/ alt_diff < 100
    \/ RGeq(climb_dist_nm, total_dist_nm)

\* <<>> stands for None, <<w>> for the waypoint w
_calc_intermediate(start, end, target_alt, is_last_segment, climb_rate_fpm, ground_speed_kt) ==
    LET alt_diff == Abs(end.altitude_ft - start.altitude_ft)
        climb_dist_nm == ClimbDistNm(alt_diff, climb_rate_fpm, ground_speed_kt)
        total_dist_nm == _haversine_nm(start.latitude, end.latitude)
    IN  IF NoIntermediate(alt_diff, climb_dist_nm, total_dist_nm)
        THEN <<>>
        ELSE <<BuildIntermediate(start, end, target_alt, is_last_segment,
                                 climb_dist_nm, total_dist_nm)>>

\* target altitude of the intermediate of the leg leaving base[i]
TargetAlt(base, i) ==
    IF i = Len(base) - 1 THEN base[i].altitude_ft ELSE base[i + 1].altitude_ft

RECURSIVE InsertFrom(_, _, _, _)
InsertFrom(base, i, climb_rate_fpm, ground_speed_kt) ==
    IF i > Len(base) THEN <<>>
    ELSE IF i = Len(base) THEN <<base[i]>>
    ELSE <<base[i]>>
         \o _calc_intermediate(base[i], base[i + 1], TargetAlt(base, i),
                               i = Len(base) - 1, climb_rate_fpm, ground_speed_kt)
         \o InsertFrom(base, i + 1, climb_rate_fpm, ground_speed_kt)

_insert_intermediates(base, climb_rate_fpm, ground_speed_kt) ==
    IF Len(base) < 2 THEN base
    ELSE InsertFrom(base, 1, climb_rate_fpm, ground_speed_kt)

\* correct_route without the test of the number of waypoints
correct_route_Unguarded(a) ==
    _insert_intermediates(
        _assign_altitudes(a.waypoints, a.dep_ground_ft, a.arr_ground_ft,
                          a.pattern_alt_ft, a.min_alt_ft),
        a.climb_rate_fpm, a.ground_speed_kt)

correct_route(a) ==
    IF Len(a.waypoints) < 2 THEN <<>>
    ELSE _insert_intermediates(
            _assign_altitudes(a.waypoints, a.dep_ground_ft, a.arr_ground_ft,
                              a.pattern_alt_ft, a.min_alt_ft),
            a.climb_rate_fpm, a.ground_speed_kt)

(***************************************************************************)
(* Inputs of the corrector                                                 *)
(***************************************************************************)
MaxWaypoints == 3

\* imported altitudes in metres: 49.87 ft, 1049.87 ft, 1100.07 ft, 3000.0001 ft
AltitudesM == {<<152, 10>>, <<320, 1>>, <<3353, 10>>, <<9144, 10>>}
\* latitudes (arc units of 1/6 NM): 0, 6 and 40 NM from the origin
Latitudes == {<<0, 1>>, <<36, 1>>, <<240, 1>>}
Longitude == <<12, 1>>
WaypointNames == <<"W1", "W2", "W3", "W4", "W5">>

GroundArgs == {[dep |-> None, arr |-> None], [dep |-> <<200>>, arr |-> None],
               [dep |-> None, arr |-> <<550>>], [dep |-> <<200>>, arr |-> <<550>>]}

InputWaypoints(n) ==
    {[i \in 1..n |-> [name |-> WaypointNames[i], latitude |-> la[i],
                      longitude |-> Longitude, altitude_m |-> al[i]]] :
        la \in [1..n -> Latitudes], al \in [1..n -> AltitudesM]}

CorrectorArgs ==
    {[waypoints |-> w, dep_ground_ft |-> g.dep, arr_ground_ft |-> g.arr,
      climb_rate_fpm |-> DEFAULT_CLIMB_RATE_FPM,
      ground_speed_kt |-> DEFAULT_GROUND_SPEED_KT,
      pattern_alt_ft |-> DEFAULT_PATTERN_ALT_FT,
      min_alt_ft |-> m] :
        w \in UNION {InputWaypoints(n) : n \in 0..MaxWaypoints},
        g \in GroundArgs,
        m \in {DEFAULT_MIN_ALT_FT}}

CorrectorInit ==
    /\ rc_in \in CorrectorArgs
    /\ rc_out = [status |-> "pending", value |-> <<>>]
    /\ store_file = None
    /\ local_path = None
    /\ q_out = [op |-> "none", args |-> <<>>, error |-> "ok", value |-> <<>>]
    /\ ServicesUnused /\ BuilderUnused /\ EtlUnused /\ ParserUnused
    /\ TilesUnused /\ ReposUnused /\ ConnUnused /\ SchemaUnused

CorrectRoute ==
    /\ rc_out.status = "pending"
    /\ rc_out' = [status |-> "returned", value |-> correct_route(rc_in)]
    /\ UNCHANGED <<rc_in, store_file, local_path, q_out>>

CorrectorNext ==
    CorrectRoute /\ UNCHANGED <<services_vars, builder_vars, etl_vars, parser_vars,
                  tiles_vars, repos_vars, conn_vars, schema_vars>>

SpecCorrector == CorrectorInit /\ [][CorrectorNext]_vars

(***************************************************************************)
(* SpatiaLite predicates on the traces of the geometries                   *)
(***************************************************************************)
\* degrees of latitude per coordinate unit
CoordUnit == <<1, 24>>

Min(a, b) == IF a <= b THEN a ELSE b
Max(a, b) == IF a >= b THEN a ELSE b

\* MakeLine(MakePoint(lon1, lat1), MakePoint(lon2, lat2)), lat1 # lat2
MakeLine(lat1, lat2) ==
    [lo |-> RInt(Min(lat1, lat2)), hi |-> RInt(Max(lat1, lat2)),
     cells |-> Min(lat1, lat2)..(Max(lat1, lat2) - 1)]

\* ST_Buffer(line, buffer_deg): every point within buffer_deg of the line
ST_Buffer(line, buffer_deg) ==
    LET d == RDiv(buffer_deg, CoordUnit)
    IN  [lo |-> RSub(line.lo, d), hi |-> RAdd(line.hi, d)]

\* ST_Intersects(geometry, g): the polygon and the closed interval g share a point
ST_Intersects(geometry, g) ==
    \E i \in geometry : RGeq(RInt(i + 1), g.lo) /\ RGeq(g.hi, RInt(i))

\* ST_Contains(geometry, MakePoint(lon, lat)): the point is interior to the polygon
ST_Contains(geometry, lat) == (lat - 1) \in geometry /\ lat \in geometry

\* ST_Crosses(line, geometry): the line runs through the interior of the
\* polygon and through its exterior
ST_Crosses(line, geometry) ==
    /\ \E i \in line.cells : i \in geometry
    /\ \E i \in line.cells : i \notin geometry

(***************************************************************************)
(* core/persistence/spatialite/db_manager.py                               *)
(***************************************************************************)
LocalDb == "skypath.db"

is_ready == local_path # None /\ store_file # None

\* get_connection handing out a connection to an empty store when not ready
get_connection_EmptyWhenNotReady ==
    IF ~is_ready
    THEN [error |-> "ok", rows |-> <<>>]
    ELSE [error |-> "ok", rows |-> store_file[1]]

\* get_connection: the error raised, or "ok" and the rows the connection reads
get_connection ==
    IF ~is_ready
    THEN [error |-> "SpatiaLiteNotReadyError", rows |-> <<>>]
    ELSE [error |-> "ok", rows |-> store_file[1]]

(***************************************************************************)
(* core/persistence/spatialite/airspace_query.py                           *)
(***************************************************************************)
_TYPE_MAP == {"TMA", "CTR", "SIV", "D", "R", "P", "TSA", "CBA", "AWY", "FIR",
              "RMZ", "TMZ", "CTA"}
\* _EXCLUDED_TYPES without the upper information regions
_EXCLUDED_TYPES_NoUIR == {"CTL", "ACC", "UAC", "UTA", "FRA", "LTA", "OCA"}

_EXCLUDED_TYPES == {"CTL", "ACC", "UAC", "UIR", "UTA", "FRA", "LTA", "OCA"}

AirspaceTypeOf(espace_type) ==
    IF espace_type \in _TYPE_MAP THEN espace_type ELSE "OTHER"

\* Texts.  A name or a sector qualifier is the sequence of its words, the
\* words being separated by single spaces; str.upper() and SQL UPPER() act
\* word by word, and Python's `in` on texts is taken by whole words.
UpperWord(w) ==
    CASE w = "Paris" -> "PARIS"
      [] w = "Nord" -> "NORD"
      [] OTHER -> w

Upper(t) == [i \in DOMAIN t |-> UpperWord(t[i])]

TextIn(s, t) ==
    \E i \in 0..(Len(t) - Len(s)) : \A j \in 1..Len(s) : t[i + j] = s[j]

ServiceInfo(callsign, service_type) ==
    [callsign |-> callsign, service_type |-> service_type, frequencies |-> <<>>]

FrequencyInfo(frequency_mhz, spacing) ==
    [frequency_mhz |-> frequency_mhz, spacing |-> spacing]

\* the columns of Frequence of a Service without Frequence (LEFT JOIN)
NullFrequence ==
    [Frequence |-> None, Espacement |-> None, SecteurSituation |-> None]

ServiceRow(s, f) ==
    [IndicLieu |-> s.IndicLieu, IndicService |-> s.IndicService,
     Frequence |-> f.Frequence, Espacement |-> f.Espacement,
     SecteurSituation |-> f.SecteurSituation]

\* SELECT ... FROM Service s LEFT JOIN Frequence f ON f.ServiceRef = s.pk
\* ORDER BY f.pk, for the services matched by the WHERE clause: the rows
\* without Frequence come first (NULL sorts first), then the rows in the order
\* of the Frequence table
JoinServices(tables, matched) ==
    LET HasFrequence(sv) ==
            \E k \in 1..Len(tables.Frequence) : tables.Frequence[k].ServiceRef = sv.pk
        alone == SelectSeq(matched, LAMBDA sv : ~HasFrequence(sv))
        joined == SelectSeq(tables.Frequence,
                    LAMBDA f : \E k \in 1..Len(matched) : matched[k].pk = f.ServiceRef)
        ServiceOf(f) ==
            matched[CHOOSE k \in 1..Len(matched) : matched[k].pk = f.ServiceRef]
    IN  [k \in 1..Len(alone) |-> ServiceRow(alone[k], NullFrequence)]
        \o [k \in 1..Len(joined) |-> ServiceRow(ServiceOf(joined[k]), joined[k])]

\* strategy 1: WHERE s.EspaceRef = ?; a Service table without the column
\* makes the statement raise OperationalError, which leaves rows empty
DirectRows(tables, espace_pk) ==
    IF espace_pk = None \/ ~tables.EspaceRefColumn THEN <<>>
    ELSE JoinServices(tables,
            SelectSeq(tables.Service, LAMBDA sv : sv.EspaceRef = espace_pk))

\* WHERE UPPER(s.IndicLieu) = UPPER(?) AND s.IndicService = ?
NameRows(tables, name, service_type) ==
    JoinServices(tables,
        SelectSeq(tables.Service,
            LAMBDA sv : Upper(sv.IndicLieu) = Upper(name)
                        /\ sv.IndicService = service_type))

ServiceTypeOf(espace_type) ==
    IF espace_type = "SIV" THEN "Information" ELSE "Approche"

\* parts = espace_nom.split(); parent_name = parts[0]
ParentName(espace_nom) ==
    IF Len(espace_nom) > 1 THEN <<espace_nom[1]>> ELSE espace_nom

\* sector_filter = parts[-1].upper()
SectorFilter(espace_nom) ==
    IF Len(espace_nom) > 1 THEN <<UpperWord(espace_nom[Len(espace_nom)])>> ELSE None

\* FallsBackToName trying the names whatever the direct link returned
FallsBackToName_Always(rows, espace_nom, espace_type) ==
    espace_nom # <<>> /\ espace_type \in {"SIV", "TMA"}

\* if not rows and espace_nom and espace_type in ("SIV", "TMA")
FallsBackToName(rows, espace_nom, espace_type) ==
    rows = <<>> /\ espace_nom # <<>> /\ espace_type \in {"SIV", "TMA"}

\* the rows kept among those found under the parent name
SectorRows(all_rows, sector_filter) ==
    LET in_sector ==
            IF sector_filter # None /\ all_rows # <<>>
            THEN SelectSeq(all_rows,
                    LAMBDA r : /\ r.SecteurSituation # None
                               /\ r.SecteurSituation[1] # <<>>
                               /\ TextIn(sector_filter, Upper(r.SecteurSituation[1])))
            ELSE <<>>
    IN  IF in_sector # <<>> THEN in_sector ELSE all_rows

\* the dict of ServiceInfo keyed by IndicLieu:IndicService, in insertion order
RECURSIVE GroupRows(_, _)
GroupRows(rows, services) ==
    IF rows = <<>> THEN services
    ELSE LET row == Head(rows)
             IsKey(k) == /\ services[k].callsign = row.IndicLieu
                         /\ services[k].service_type = row.IndicService
             keyed == IF \E k \in 1..Len(services) : IsKey(k) THEN services
                      ELSE Append(services, ServiceInfo(row.IndicLieu, row.IndicService))
             at == CHOOSE k \in 1..Len(keyed) :
                        /\ keyed[k].callsign = row.IndicLieu
                        /\ keyed[k].service_type = row.IndicService
             added == IF row.Frequence = None THEN keyed
                      ELSE [keyed EXCEPT ![at].frequencies =
                                Append(@, FrequencyInfo(row.Frequence[1], row.Espacement))]
         IN  GroupRows(Tail(rows), added)

Lookup(tier, name, service_type, rows) ==
    [tier |-> tier, name |-> name, service_type |-> service_type, rows |-> rows]

\* the ServiceInfo list returned, and the statements executed on the way
_get_services(tables, espace_pk, espace_nom, espace_type) ==
    LET direct == DirectRows(tables, espace_pk)
        by_name == FallsBackToName(direct, espace_nom, espace_type)
        service_type == ServiceTypeOf(espace_type)
        parent_name == ParentName(espace_nom)
        sector_filter == SectorFilter(espace_nom)
        exact == IF by_name THEN NameRows(tables, espace_nom, service_type) ELSE <<>>
        by_parent == by_name /\ exact = <<>> /\ parent_name # espace_nom
        all_rows == IF by_parent THEN NameRows(tables, parent_name, service_type)
                    ELSE <<>>
        rows == IF ~by_name THEN direct
                ELSE IF ~by_parent THEN exact
                ELSE SectorRows(all_rows, sector_filter)
        lookups ==
            (IF espace_pk # None
             THEN <<Lookup("direct", None, None, direct)>> ELSE <<>>)
            \o (IF by_name
                THEN <<Lookup("exact", <<espace_nom>>, <<service_type>>, exact)>>
                ELSE <<>>)
            \o (IF by_parent
                THEN <<Lookup("parent", <<parent_name>>, <<service_type>>, all_rows)>>
                ELSE <<>>)
    IN  [services |-> GroupRows(rows, <<>>), lookups |-> lookups]

Service(pk, IndicLieu, IndicService, EspaceRef) ==
    [pk |-> pk, IndicLieu |-> IndicLieu, IndicService |-> IndicService,
     EspaceRef |-> EspaceRef]

Frequence(pk, ServiceRef, mhz, Espacement, SecteurSituation) ==
    [pk |-> pk, ServiceRef |-> ServiceRef, Frequence |-> <<mhz>>,
     Espacement |-> Espacement, SecteurSituation |-> SecteurSituation]

ServicePool ==
    <<Service(1, <<"PARIS", "NORD">>, "TWR", <<2>>),
      Service(2, <<"Paris", "Nord">>, "Approche", None),
      Service(3, <<"PARIS">>, "Approche", None),
      Service(4, <<"PARIS">>, "Approche", None),
      Service(5, <<"PARIS">>, "Information", None),
      Service(6, <<"SAINT", "DIZIER">>, "Approche", None),
      Service(7, <<"SAINT">>, "Approche", None)>>

\* the Frequence table, in the order of its primary key; Service 7 has none
FrequencePool ==
    <<Frequence(2, 6, "122.100", "25", <<<<"NORD">>>>),
      Frequence(3, 5, "125.700", "25", <<<<"NORD">>>>),
      Frequence(4, 4, "126.100", "25", <<<<"SUD">>>>),
      Frequence(5, 3, "124.350", "8.33", <<<<"Secteur", "Nord">>>>),
      Frequence(6, 2, "119.250", "25", None),
      Frequence(7, 1, "118.100", "25", None)>>

ServiceTables(S, column) ==
    [Service |-> SelectSeq(ServicePool, LAMBDA sv : sv.pk \in S),
     Frequence |-> FrequencePool,
     EspaceRefColumn |-> column]

\* the Service and Frequence tables of the store files of the query engine
StoreServices == ServiceTables({3, 5}, TRUE)

AirspaceIntersection(row, intersection_type, services) ==
    [identifier |-> row.espace_nom,
     airspace_type |-> AirspaceTypeOf(row.espace_type),
     airspace_class |-> row.Classe,
     lower_limit_ft |-> row.altitude_floor_ft_amsl,
     upper_limit_ft |-> row.altitude_ceiling_ft_amsl,
     intersection_type |-> intersection_type,
     partie_id |-> ToString(row.partie_pk),
     volume_id |-> ToString(row.volume_pk),
     services |-> services]

\* InAltitudeBand without the test of the ceiling
InAltitudeBand_FloorOnly(row, altitude_ft) ==
    row.altitude_floor_ft_amsl <= altitude_ft

\* WHERE altitude_floor_ft_amsl <= ? AND altitude_ceiling_ft_amsl >= ?
InAltitudeBand(row, altitude_ft) ==
    /\ row.altitude_floor_ft_amsl <= altitude_ft
    /\ row.altitude_ceiling_ft_amsl >= altitude_ft

\* ClassifyRow testing the crossing before the containment of both ends
ClassifyRow_CrossesFirst(start_inside, end_inside, crosses) ==
    IF crosses THEN "CROSSES"
    ELSE IF start_inside /\ end_inside THEN "INSIDE"
    ELSE IF start_inside THEN "EXIT"
    ELSE IF end_inside THEN "ENTRY"
    ELSE "CROSSES"

\* ClassifyRow answering EXIT for either single end point inside
ClassifyRow_NoEntry(start_inside, end_inside, crosses) ==
    IF start_inside /\ end_inside THEN "INSIDE"
    ELSE IF crosses THEN "CROSSES"
    ELSE IF start_inside THEN "EXIT"
    ELSE IF end_inside THEN "EXIT"
    ELSE "CROSSES"

\* the priority order of the classification
ClassifyRow(start_inside, end_inside, crosses) ==
    IF start_inside /\ end_inside THEN "INSIDE"
    ELSE IF crosses THEN "CROSSES"
    ELSE IF start_inside THEN "EXIT"
    ELSE IF end_inside THEN "ENTRY"
    ELSE "CROSSES"

\* fetchone() of the rows of the view with the given partie_pk
_classify_intersection(rows, lat1, lat2, partie_pk) ==
    LET found == SelectSeq(rows, LAMBDA r : r.partie_pk = partie_pk)
    IN  IF found = <<>> THEN "CROSSES"
        ELSE ClassifyRow(ST_Contains(found[1].geometry, lat1),
                         ST_Contains(found[1].geometry, lat2),
                         ST_Crosses(MakeLine(lat1, lat2), found[1].geometry))

\* SegmentSelects leaving out the rows whose floor or ceiling is the altitude
SegmentSelects_Strict(row, lat1, lat2, altitude_ft) ==
    /\ ST_Intersects(row.geometry, MakeLine(lat1, lat2))
    /\ row.altitude_floor_ft_amsl < altitude_ft
    /\ row.altitude_ceiling_ft_amsl > altitude_ft

SegmentSelects(row, lat1, lat2, altitude_ft) ==
    /\ ST_Intersects(row.geometry, MakeLine(lat1, lat2))
    /\ InAltitudeBand(row, altitude_ft)

_query_segment(rows, lat1, lat2, altitude_ft) ==
    LET selected == SelectSeq(rows, LAMBDA r : SegmentSelects(r, lat1, lat2, altitude_ft))
        kept == SelectSeq(selected, LAMBDA r : r.espace_type \notin _EXCLUDED_TYPES)
    IN  [k \in 1..Len(kept) |->
            AirspaceIntersection(kept[k],
                _classify_intersection(rows, lat1, lat2, kept[k].partie_pk),
                _get_services(StoreServices, <<kept[k].espace_pk>>,
                              kept[k].espace_nom, kept[k].espace_type).services)]

CorridorSelects(row, lat1, lat2, altitude_ft, corridor_nm) ==
    LET buffer_deg == RDiv(corridor_nm, RInt(60))
    IN  /\ ST_Intersects(row.geometry, ST_Buffer(MakeLine(lat1, lat2), buffer_deg))
        /\ ~ST_Intersects(row.geometry, MakeLine(lat1, lat2))
        /\ InAltitudeBand(row, altitude_ft)

_query_corridor(rows, lat1, lat2, altitude_ft, corridor_nm) ==
    LET selected == SelectSeq(rows,
                        LAMBDA r : CorridorSelects(r, lat1, lat2, altitude_ft, corridor_nm))
        kept == SelectSeq(selected, LAMBDA r : r.espace_type \notin _EXCLUDED_TYPES)
    IN  [k \in 1..Len(kept) |-> AirspaceIntersection(kept[k], "NEARBY", <<>>)]

LegAirspaces(rows, waypoints, leg, corridor_nm) ==
    LET wp1 == waypoints[leg.from_seq]
        wp2 == waypoints[leg.to_seq]
    IN  [from_waypoint |-> wp1.name,
         to_waypoint |-> wp2.name,
         from_seq |-> leg.from_seq,
         to_seq |-> leg.to_seq,
         planned_altitude_ft |-> leg.altitude_ft,
         route_airspaces |-> _query_segment(rows, wp1.lat, wp2.lat, leg.altitude_ft),
         corridor_airspaces |->
            _query_corridor(rows, wp1.lat, wp2.lat, leg.altitude_ft, corridor_nm)]

\* analyze_route appending the LegAirspaces of the legs last to first
analyze_route_Reversed(rows, waypoints, legs, corridor_nm) ==
    [k \in 1..Len(legs) |->
        LegAirspaces(rows, waypoints, legs[Len(legs) + 1 - k], corridor_nm)]

\* for from_seq, to_seq, alt_ft in legs: results.append(LegAirspaces(...))
analyze_route(rows, waypoints, legs, corridor_nm) ==
    [k \in 1..Len(legs) |-> LegAirspaces(rows, waypoints, legs[k], corridor_nm)]

\* corridor_nm: float = 2.5
DEFAULT_CORRIDOR_NM == <<5, 2>>

(***************************************************************************)
(* Stores, segments and routes of the query engine                         *)
(***************************************************************************)
MaxRows == 2
MaxLegs == 2

\* the parts of the reference data and the airspace each belongs to
Espaces ==
    <<[pk |-> 1, Nom |-> <<"PARIS">>, TypeEspace |-> "TMA", Classe |-> "A"],
      [pk |-> 2, Nom |-> <<"REIMS">>, TypeEspace |-> "CTR", Classe |-> "D"],
      [pk |-> 3, Nom |-> <<"FRANCE">>, TypeEspace |-> "UIR", Classe |-> ""]>>
PartEspace == <<1, 1, 2, 3>>
Parts == DOMAIN PartEspace

\* [floor, ceiling] in ft AMSL
Bands == {<<1500, 3000>>}
Altitudes == {1000, 1500, 3000, 3500}
\* traces of the polygons, and the latitudes of the points of the queries
Geoms == {{1, 2, 4, 5}, {1, 2, 3, 4}, {3}, {0}}
Points == {2, 3, 5}

ViewRow(partie_pk, volume_pk, band, geometry) ==
    LET e == Espaces[PartEspace[partie_pk]]
    IN  [partie_pk |-> partie_pk, espace_pk |-> e.pk, espace_nom |-> e.Nom,
         espace_type |-> e.TypeEspace, Classe |-> e.Classe,
         volume_pk |-> volume_pk,
         altitude_floor_ft_amsl |-> band[1],
         altitude_ceiling_ft_amsl |-> band[2],
         geometry |-> geometry]

Views(n) ==
    {[i \in 1..n |-> ViewRow(ps[i], i, bs[i], gs[i])] :
        ps \in [1..n -> Parts], bs \in [1..n -> Bands], gs \in [1..n -> Geoms]}

AllViews == UNION {Views(n) : n \in 0..MaxRows}

RouteWaypoints ==
    <<[name |-> "LFAA", lat |-> 2], [name |-> "WPT2", lat |-> 3],
      [name |-> "LFBB", lat |-> 5]>>
LegChoices ==
    {[from_seq |-> 1, to_seq |-> 2, altitude_ft |-> 1500],
     [from_seq |-> 2, to_seq |-> 3, altitude_ft |-> 3000]}
LegLists == UNION {[1..n -> LegChoices] : n \in 0..MaxLegs}

NoCall == [op |-> "none", args |-> <<>>, error |-> "ok", value |-> <<>>]

\* the caller takes the outcome of its call; it makes one call at a time
Idle == q_out.op = "none"

TakeOutcome ==
    /\ ~Idle
    /\ q_out' = NoCall
    /\ UNCHANGED <<store_file, local_path>>

\* the files a path may name: no file (None) or a store <<view rows>>
Files == {None} \cup {<<v>> : v \in AllViews}

\* SpatiaLiteManager.use_local(path), path naming the file f; the manager is
\* attached to a store once
UseLocal ==
    /\ Idle
    /\ local_path = None
    /\ \E f \in Files :
        IF f = None
        THEN /\ q_out' = [op |-> "use_local", args |-> <<LocalDb>>,
                          error |-> "FileNotFoundError", value |-> <<>>]
             /\ UNCHANGED <<store_file, local_path>>
        ELSE /\ local_path' = <<LocalDb>>
             /\ store_file' = f
             /\ q_out' = [op |-> "use_local", args |-> <<LocalDb>>,
                          error |-> "ok", value |-> <<>>]

\* SpatiaLiteManager.download(cycle): the blob f of the cycle is fetched into
\* the local cache (or found there); a missing blob makes the client raise
Download ==
    /\ Idle
    /\ local_path = None
    /\ \E f \in Files :
        IF f = None
        THEN /\ q_out' = [op |-> "download", args |-> <<LocalDb>>,
                          error |-> "NotFound", value |-> <<>>]
             /\ UNCHANGED <<store_file, local_path>>
        ELSE /\ local_path' = <<LocalDb>>
             /\ store_file' = f
             /\ q_out' = [op |-> "download", args |-> <<LocalDb>>,
                          error |-> "ok", value |-> <<>>]

\* AirspaceQueryService.query_segment_airspaces on the meridian
QuerySegmentAirspaces ==
    \E lat1 \in Points, lat2 \in Points, altitude_ft \in Altitudes :
        /\ Idle
        /\ lat1 # lat2
        /\ LET conn == get_connection
           IN  q_out' =
                [op |-> "query_segment_airspaces",
                 args |-> [lat1 |-> lat1, lat2 |-> lat2, altitude_ft |-> altitude_ft],
                 error |-> conn.error,
                 value |-> IF conn.error # "ok" THEN <<>>
                           ELSE _query_segment(conn.rows, lat1, lat2, altitude_ft)]
        /\ UNCHANGED <<store_file, local_path>>

\* AirspaceQueryService.analyze_route
AnalyzeRoute ==
    \E legs \in LegLists :
        /\ Idle
        /\ LET conn == get_connection
           IN  q_out' =
                [op |-> "analyze_route",
                 args |-> [waypoints |-> RouteWaypoints, legs |-> legs,
                           corridor_nm |-> DEFAULT_CORRIDOR_NM],
                 error |-> conn.error,
                 value |-> IF conn.error # "ok" THEN <<>>
                           ELSE analyze_route(conn.rows, RouteWaypoints, legs,
                                              DEFAULT_CORRIDOR_NM)]
        /\ UNCHANGED <<store_file, local_path>>

NoCorrectorCall ==
    [waypoints |-> <<>>, dep_ground_ft |-> None, arr_ground_ft |-> None,
     climb_rate_fpm |-> DEFAULT_CLIMB_RATE_FPM,
     ground_speed_kt |-> DEFAULT_GROUND_SPEED_KT,
     pattern_alt_ft |-> DEFAULT_PATTERN_ALT_FT,
     min_alt_ft |-> DEFAULT_MIN_ALT_FT]

QueryInit ==
    /\ store_file = None
    /\ local_path = None
    /\ q_out = NoCall
    /\ rc_in = NoCorrectorCall
    /\ rc_out = [status |-> "pending", value |-> <<>>]
    /\ ServicesUnused /\ BuilderUnused /\ EtlUnused /\ ParserUnused
    /\ TilesUnused /\ ReposUnused /\ ConnUnused /\ SchemaUnused

query_rest == <<corrector_vars, services_vars, builder_vars, etl_vars,
                  parser_vars, tiles_vars, repos_vars, conn_vars, schema_vars>>

QueryNext ==
    \/ UseLocal /\ UNCHANGED query_rest
    \/ Download /\ UNCHANGED query_rest
    \/ QuerySegmentAirspaces /\ UNCHANGED query_rest
    \/ AnalyzeRoute /\ UNCHANGED query_rest
    \/ TakeOutcome /\ UNCHANGED query_rest

SpecQuery == QueryInit /\ [][QueryNext]_vars

(***************************************************************************)
(* core/etl/spatialite_builder.py                                          *)
(*                                                                         *)
(* A database file is a record of its tables, each the sequence of its     *)
(* rows in the order of their AUTOINCREMENT primary key (no row is ever    *)
(* deleted, so the key of a row is its position), a flag telling whether   *)
(* Geometrie has its spatial column, and the materialized table            *)
(* airspace_spatial_indexed (None while it does not exist).  The texts of  *)
(* the numeric fields are strings; PyFloat and SqlCastReal give the value  *)
(* Python's float() and SQLite's CAST(... AS REAL) make of them.           *)
(***************************************************************************)
ValidWkt == "POLYGON((2 48, 3 48, 3 49, 2 48))"
BrokenWkt == "POLYGON((2 48, 3 48"

\* SpatiaLite GeomFromText: the geometry, or NULL for a text it cannot parse
GeomFromText(wkt) == IF wkt = ValidWkt THEN <<wkt>> ELSE None

\* float(val) of a non-empty text: the number, or None for ValueError
PyFloat(text) ==
    CASE text = "2" -> <<2>>
      [] text = "49" -> <<49>>
      [] text = "65" -> <<65>>
      [] text = "2700" -> <<2700>>
      [] text = "3000" -> <<3000>>
      [] text = "5000" -> <<5000>>
      [] OTHER -> None

\* _float(val), val being None or <<text>>
_float(val) ==
    IF val = None THEN None
    ELSE IF val[1] = "" THEN None
    ELSE PyFloat(val[1])

\* CAST(text AS REAL): the value of the longest numeric prefix, 0 without one
SqlCastReal(text) ==
    CASE text = "0" -> 0
      [] text = "65" -> 65
      [] text = "3000" -> 3000
      [] text = "5000" -> 5000
      [] text = "99999" -> 99999
      [] OTHER -> 0

\* CAST(COALESCE(NULLIF(val, ''), default) AS REAL)
ViewAltitude(val, default) ==
    SqlCastReal(IF val = None THEN default
                ELSE IF val[1] = "" THEN default ELSE val[1])

EmptyDatabase ==
    [Espace |-> <<>>, Partie |-> <<>>, Volume |-> <<>>, Geometrie |-> <<>>,
     Service |-> <<>>, Frequence |-> <<>>,
     Ad |-> <<>>, Rwy |-> <<>>, geom_column |-> FALSE, view |-> None]

\* dict.get(key, default)
Get(d, key, default) == IF key \in DOMAIN d THEN d[key] ELSE default

\* the key a record is filed under in espace_pk_map, partie_pk_map and
\* service_pk_map, and the VolumeId of a volume
EspaceKey(e) == Get(e, "pk", Get(e, "EspaceId", ""))
PartieKey(p) == Get(p, "pk", Get(p, "PartieId", ""))
VolumeKey(v) == Get(v, "pk", Get(v, "VolumeId", ""))
ServiceKey(s) == Get(s, "pk", Get(s, "IndicLieu", ""))

\* the key a child record looks its parent up with
EspaceOf(p) == Get(p, "espace_pk", Get(p, "EspaceId", ""))
PartieOf(c) == Get(c, "partie_pk", Get(c, "PartieId", ""))
ServiceOf(f) == Get(f, "service_pk", Get(f, "IndicLieu", ""))

\* the surrogate key given to the last record of key `key` among those
\* inserted after the `base` rows already in the table; None for no record
PkOf(keys, base, key) ==
    LET at == {k \in DOMAIN keys : keys[k] = key}
    IN  IF at = {} THEN None
        ELSE <<base + (CHOOSE k \in at : \A h \in at : h <= k)>>

\* the rows _insert_data adds to the tables of db for the records of data
InsertedRows(db, data) ==
    LET espace_pk_map(key) ==
            PkOf([k \in DOMAIN data.espaces |-> EspaceKey(data.espaces[k])],
                 Len(db.Espace), key)
        partie_pk_map(key) ==
            PkOf([k \in DOMAIN data.parties |-> PartieKey(data.parties[k])],
                 Len(db.Partie), key)
        service_pk_map(key) ==
            PkOf([k \in DOMAIN data.services |-> ServiceKey(data.services[k])],
                 Len(db.Service), key)
        ad_pk_map(code) ==
            LET at == {k \in DOMAIN data.aerodromes : data.aerodromes[k].AdCode = code}
            IN  IF at = {} THEN None
                ELSE <<Len(db.Ad) + (CHOOSE k \in at : \A h \in at : h <= k)>>
    IN  [Espace |-> [k \in DOMAIN data.espaces |->
                        [pk |-> Len(db.Espace) + k,
                         EspaceId |-> EspaceKey(data.espaces[k]),
                         Nom |-> data.espaces[k].Nom,
                         TypeEspace |-> data.espaces[k].TypeEspace,
                         Classe |-> data.espaces[k].Classe]],
         Partie |-> [k \in DOMAIN data.parties |->
                        [pk |-> Len(db.Partie) + k,
                         espace_pk |-> espace_pk_map(EspaceOf(data.parties[k])),
                         PartieId |-> PartieKey(data.parties[k]),
                         Nom |-> data.parties[k].Nom]],
         Volume |-> [k \in DOMAIN data.volumes |->
                        [pk |-> Len(db.Volume) + k,
                         partie_pk |-> partie_pk_map(PartieOf(data.volumes[k])),
                         VolumeId |-> VolumeKey(data.volumes[k]),
                         PlancherRef |-> data.volumes[k].PlancherRef,
                         PlancherVal |-> <<data.volumes[k].PlancherVal>>,
                         PlafondRef |-> data.volumes[k].PlafondRef,
                         PlafondVal |-> <<data.volumes[k].PlafondVal>>]],
         Geometrie |-> [k \in DOMAIN data.geometries |->
                        [pk |-> Len(db.Geometrie) + k,
                         partie_pk |-> partie_pk_map(PartieOf(data.geometries[k])),
                         WKT |-> data.geometries[k].WKT,
                         geom |-> None]],
         Service |-> [k \in DOMAIN data.services |->
                        [pk |-> Len(db.Service) + k,
                         IndicLieu |-> Get(data.services[k], "IndicLieu", ""),
                         Indicatif |-> Get(data.services[k], "Indicatif", "")]],
         Frequence |-> [k \in DOMAIN data.frequencies |->
                        [pk |-> Len(db.Frequence) + k,
                         service_pk |-> service_pk_map(ServiceOf(data.frequencies[k])),
                         IndicLieu |-> Get(data.frequencies[k], "IndicLieu", ""),
                         Frequence |-> Get(data.frequencies[k], "Frequence", "")]],
         Ad |-> [k \in DOMAIN data.aerodromes |->
                        [pk |-> Len(db.Ad) + k,
                         AdCode |-> data.aerodromes[k].AdCode,
                         ArpLat |-> _float(data.aerodromes[k].ArpLat),
                         ArpLon |-> _float(data.aerodromes[k].ArpLon)]],
         Rwy |-> [k \in DOMAIN data.runways |->
                        [pk |-> Len(db.Rwy) + k,
                         ad_pk |-> ad_pk_map(data.runways[k].AdCode),
                         AdCode |-> data.runways[k].AdCode,
                         Longueur |-> _float(data.runways[k].Longueur)]]]

\* AdCode TEXT UNIQUE: the INSERT of an aerodrome whose code is in the table
\* (from a build before, or from this one) raises sqlite3.IntegrityError
UniqueAdCodeFails(db, data) ==
    \/ \E k \in DOMAIN data.aerodromes, h \in DOMAIN db.Ad :
            data.aerodromes[k].AdCode = db.Ad[h].AdCode
    \/ \E k, h \in DOMAIN data.aerodromes :
            k # h /\ data.aerodromes[k].AdCode = data.aerodromes[h].AdCode

\* _insert_data: all the INSERTs and one commit
_insert_data(db, data) ==
    LET rows == InsertedRows(db, data)
    IN  [db EXCEPT !.Espace = @ \o rows.Espace,
                   !.Partie = @ \o rows.Partie,
                   !.Volume = @ \o rows.Volume,
                   !.Geometrie = @ \o rows.Geometrie,
                   !.Service = @ \o rows.Service,
                   !.Frequence = @ \o rows.Frequence,
                   !.Ad = @ \o rows.Ad,
                   !.Rwy = @ \o rows.Rwy]

\* AddGeometryColumn (which does nothing when the column exists), then
\* UPDATE Geometrie SET geom = GeomFromText(WKT, 4326) WHERE WKT != ''
_build_spatial_geometries(db) ==
    LET g == db.Geometrie
    IN  [db EXCEPT !.geom_column = TRUE,
                   !.Geometrie = [k \in DOMAIN g |->
                        IF g[k].WKT = "" THEN g[k]
                        ELSE [g[k] EXCEPT !.geom = GeomFromText(g[k].WKT)]]]

\* the rows of: Partie p JOIN Espace e JOIN Volume v JOIN Geometrie g
\* WHERE g.geom IS NOT NULL, one for each (p, v, g)
ViewTriples(db) ==
    {t \in (DOMAIN db.Partie) \X (DOMAIN db.Volume) \X (DOMAIN db.Geometrie) :
        /\ db.Partie[t[1]].espace_pk # None
        /\ db.Partie[t[1]].espace_pk[1] \in DOMAIN db.Espace
        /\ db.Volume[t[2]].partie_pk = <<t[1]>>
        /\ db.Geometrie[t[3]].partie_pk = <<t[1]>>
        /\ db.Geometrie[t[3]].geom # None}

SelectView(db) ==
    [t \in ViewTriples(db) |->
        LET pt == db.Partie[t[1]]
            e == db.Espace[pt.espace_pk[1]]
            v == db.Volume[t[2]]
        IN  [partie_pk |-> pt.pk, espace_pk |-> e.pk, espace_nom |-> e.Nom,
             espace_type |-> e.TypeEspace, partie_nom |-> pt.Nom,
             volume_pk |-> v.pk,
             altitude_floor_ft_amsl |-> ViewAltitude(v.PlancherVal, "0"),
             altitude_ceiling_ft_amsl |-> ViewAltitude(v.PlafondVal, "99999"),
             Classe |-> e.Classe,
             geom_spatial |-> db.Geometrie[t[3]].geom[1]]]

\* CREATE TABLE IF NOT EXISTS airspace_spatial_indexed AS SELECT ...
_create_materialized_view(db) ==
    IF db.view # None THEN db ELSE [db EXCEPT !.view = <<SelectView(db)>>]

\* SpatiaLiteBuilder.build on the file `file` (None: no file yet): what the
\* file holds afterwards and whether build raised.  The INSERTs of a build
\* that raises are rolled back when the connection is closed.
build(file, data) ==
    LET db == IF file = None THEN EmptyDatabase ELSE file[1]
    IN  IF UniqueAdCodeFails(db, data)
        THEN [file |-> <<db>>, raised |-> "IntegrityError"]
        ELSE [file |-> <<_create_materialized_view(
                            _build_spatial_geometries(_insert_data(db, data)))>>,
              raised |-> "ok"]

\* the columns of the tables CREATEd by _create_tables
TableColumns ==
    [Espace |-> {"pk", "EspaceId", "Nom", "TypeEspace", "Classe"},
     Partie |-> {"pk", "espace_pk", "PartieId", "Nom"},
     Volume |-> {"pk", "partie_pk", "VolumeId", "Plancher", "PlancherRef",
                 "PlancherVal", "Plafond", "PlafondRef", "PlafondVal", "HorCode"},
     Geometrie |-> {"pk", "partie_pk", "WKT"},
     Service |-> {"pk", "IndicLieu", "Indicatif", "TypeService", "Langue",
                  "HorCode", "HorTxt"},
     Frequence |-> {"pk", "service_pk", "IndicLieu", "Frequence", "Espacement",
                    "HorCode", "HorTxt", "Secteur", "Remarques"}]

\* the columns of CREATE TABLE airspace_spatial_indexed AS SELECT ... AS name
ViewColumns ==
    {"partie_pk", "espace_pk", "espace_nom", "espace_type", "partie_nom",
     "volume_pk", "altitude_floor_ft_amsl", "altitude_ceiling_ft_amsl",
     "Classe", "HorCode", "conversion_status", "geom_spatial"}

\* the tables of the database file and the columns of each
Schema(db) ==
    [t \in {"Espace", "Partie", "Volume", "Geometrie", "Service", "Frequence"}
            \cup (IF db.view # None THEN {"airspace_spatial_indexed"} ELSE {}) |->
        IF t = "airspace_spatial_indexed" THEN ViewColumns
        ELSE IF t = "Geometrie" /\ db.geom_column
             THEN TableColumns[t] \cup {"geom"}
        ELSE TableColumns[t]]

\* the <<table, column>> named by the SELECTs of _query_segment,
\* _classify_intersection and _query_corridor
ViewReads ==
    {<<"airspace_spatial_indexed", c>> :
        c \in {"espace_nom", "espace_type", "partie_nom", "Classe",
               "altitude_floor_ft_amsl", "altitude_ceiling_ft_amsl",
               "partie_pk", "volume_pk", "espace_pk", "geometry"}}

\* the <<table, column>> named by the three SELECTs of _get_services
ServiceReads ==
    {<<"Service", c>> : c \in {"pk", "IndicLieu", "IndicService", "EspaceRef"}}
        \cup {<<"Frequence", c>> :
                c \in {"pk", "ServiceRef", "Frequence", "Espacement",
                       "SecteurSituation"}}

\* sqlite3.OperationalError "no such table" / "no such column" on prepare
Missing(schema, reads) ==
    {r \in reads : r[1] \notin DOMAIN schema \/ r[2] \notin schema[r[1]]}

(***************************************************************************)
(* The parsed records given to the builder, and its builds                 *)
(***************************************************************************)
MaxBuilds == 2

\* the reference a floor or ceiling text is expressed against
RefOf(text) ==
    CASE text = "" -> ""
      [] text = "SFC" -> "SFC"
      [] text = "UNL" -> "UNL"
      [] text = "65" -> "FL"
      [] OTHER -> "AMSL"

FloorTexts == {"", "SFC", "5000"}
CeilingTexts == {"", "UNL", "3000", "65"}
WktTexts == {ValidWkt, BrokenWkt}

\* one aerodrome whose latitude is not a number, with a runway without length
Aerodrome == [AdCode |-> "LFPG", ArpLat |-> <<"N49">>, ArpLon |-> <<"2">>]
Runway == [AdCode |-> "LFPG", Longueur |-> <<"">>]

ParsedSIA(floor, ceiling, wkt, aerodromes) ==
    [espaces |-> <<[pk |-> "E1", Nom |-> <<"REIMS">>, TypeEspace |-> "CTR",
                    Classe |-> "D"]>>,
     parties |-> <<[pk |-> "P1", espace_pk |-> "E1", Nom |-> <<"REIMS">>]>>,
     volumes |-> <<[pk |-> "V1", partie_pk |-> "P1",
                    PlancherRef |-> RefOf(floor), PlancherVal |-> floor,
                    PlafondRef |-> RefOf(ceiling), PlafondVal |-> ceiling]>>,
     geometries |-> <<[partie_pk |-> "P1", WKT |-> wkt]>>,
     services |-> <<>>,
     frequencies |-> <<>>,
     aerodromes |-> aerodromes,
     runways |-> IF aerodromes = <<>> THEN <<>> ELSE <<Runway>>]

BuilderData ==
    {ParsedSIA(floor, ceiling, wkt, aerodromes) :
        floor \in FloorTexts, ceiling \in CeilingTexts, wkt \in WktTexts,
        aerodromes \in {<<>>, <<Aerodrome>>}}

BuilderInit ==
    /\ db_file = None
    /\ builds = <<>>
    /\ CorrectorUnused /\ QueryUnused /\ ServicesUnused /\ EtlUnused
    /\ ParserUnused /\ TilesUnused /\ ReposUnused /\ ConnUnused
    /\ SchemaUnused

\* SpatiaLiteBuilder(db_path).build(data), db_path being the same every time
Build ==
    \E data \in BuilderData :
        /\ Len(builds) < MaxBuilds
        /\ LET done == build(db_file, data)
           IN  /\ db_file' = done.file
               /\ builds' = Append(builds, [data |-> data, raised |-> done.raised])
        /\ UNCHANGED <<corrector_vars, query_vars, services_vars, etl_vars,
                  parser_vars, tiles_vars, repos_vars, conn_vars, schema_vars>>

BuilderNext == Build

SpecBuilder == BuilderInit /\ [][BuilderNext]_vars

(***************************************************************************)
(* Records naming their parents, given to one build on a new file          *)
(***************************************************************************)
\* a record carries its key, and the key of its parent, under the surrogate
\* field ("pk", "espace_pk", ...) or under the natural one ("EspaceId", ...)
KeyStyles == {"surrogate", "natural"}

Field(style, surrogate, natural) == IF style = "surrogate" THEN surrogate ELSE natural

LocationIndicators == <<"LFPG", "LFPO">>

\* the key of the k-th Service record of LinkedSIA, and of one not in the input
ServiceNamed(style, k, second) ==
    IF style = "surrogate"
    THEN (CASE k = 1 -> "S1" [] k = 2 -> "S2" [] OTHER -> "S9")
    ELSE (CASE k = 1 -> "LFPG" [] k = 2 -> second [] OTHER -> "LFXX")

LinkedSIA(parents, children, espace, partie, service, second, ad) ==
    [espaces |->
        <<Field(parents, "pk", "EspaceId") :> "E1"
            @@ [Nom |-> <<"REIMS">>, TypeEspace |-> "CTR", Classe |-> "D"],
          Field(parents, "pk", "EspaceId") :> "E2"
            @@ [Nom |-> <<"PARIS">>, TypeEspace |-> "TMA", Classe |-> "A"]>>,
     parties |->
        <<Field(parents, "pk", "PartieId") :> "P1"
            @@ Field(children, "espace_pk", "EspaceId") :> "E1"
            @@ [Nom |-> <<"REIMS">>],
          Field(parents, "pk", "PartieId") :> "P2"
            @@ Field(children, "espace_pk", "EspaceId") :> espace
            @@ [Nom |-> <<"PARIS 1">>]>>,
     volumes |->
        <<Field(parents, "pk", "VolumeId") :> "V1"
            @@ Field(children, "partie_pk", "PartieId") :> partie
            @@ [PlancherRef |-> "", PlancherVal |-> "",
                PlafondRef |-> "AMSL", PlafondVal |-> "3000"]>>,
     geometries |->
        <<Field(children, "partie_pk", "PartieId") :> "P1" @@ [WKT |-> ValidWkt]>>,
     services |->
        <<(IF parents = "surrogate" THEN "pk" :> "S1" ELSE <<>>)
            @@ [IndicLieu |-> "LFPG", Indicatif |-> "TWR"],
          (IF parents = "surrogate" THEN "pk" :> "S2" ELSE <<>>)
            @@ [IndicLieu |-> second, Indicatif |-> "APP"]>>,
     frequencies |->
        <<Field(children, "service_pk", "IndicLieu")
                :> ServiceNamed(children, service, second)
            @@ [Frequence |-> "118.1"]>>,
     aerodromes |-> <<Aerodrome>>,
     runways |-> <<[AdCode |-> ad, Longueur |-> <<"">>]>>]

LinkData ==
    {LinkedSIA(parents, children, espace, partie, service, second, ad) :
        parents \in KeyStyles, children \in KeyStyles,
        espace \in {"E1", "E2", "E9"}, partie \in {"P1", "P2", "P9"},
        service \in {1, 2, 9},
        second \in {LocationIndicators[i] : i \in DOMAIN LocationIndicators},
        ad \in {"LFPG", "LFXX"}}

\* SpatiaLiteBuilder(db_path).build(data) on a db_path that does not exist
BuildLinked ==
    \E data \in LinkData :
        /\ db_file = None
        /\ LET done == build(db_file, data)
           IN  /\ db_file' = done.file
               /\ builds' = Append(builds, [data |-> data, raised |-> done.raised])
        /\ UNCHANGED <<corrector_vars, query_vars, services_vars, etl_vars,
                       parser_vars, tiles_vars, repos_vars, conn_vars,
                  schema_vars>>

LinksNext == BuildLinked

SpecLinks == BuilderInit /\ [][LinksNext]_vars

(***************************************************************************)
(* core/etl/cli.py, core/etl/tile_generator.py, core/etl/gcs_uploader.py   *)
(*                                                                         *)
(* One ETL run is the sequence of the steps of cli.main; every step may    *)
(* raise for a reason of its environment (unreadable document, SpatiaLite  *)
(* missing, disk, network), which ends the run.  The --output directory    *)
(* holds one database per cycle and one tiles directory.  A blob of the    *)
(* buckets is described by what it was made from: the store blob and the   *)
(* tile blobs by the materialized table of the database.                   *)
(***************************************************************************)
MaxRuns == 2

Cycles == {"2603", "2604"}
Outputs == {"/tmp/etl", "/tmp/etl2"}
TilesetFile == "tileset.json"
AirspaceTile == "airspaces/6/32/22.json"

EtlData ==
    {ParsedSIA("", "3000", wkt, <<Aerodrome>>) : wkt \in WktTexts}

\* --upload and --activate; --activate is read only under --upload
EtlFlags ==
    {[upload |-> FALSE, activate |-> FALSE],
     [upload |-> TRUE, activate |-> FALSE],
     [upload |-> TRUE, activate |-> TRUE]}

NoRun == [pc |-> "idle", args |-> None, steps |-> <<>>, todo |-> {}]

EmptyOutput == [db |-> [c \in Cycles |-> None], tiles |-> <<>>]

\* the files generate_all writes for the database: tileset.json, and a tile
\* for every tile box with a feature (the airspace of the data is a CTR,
\* drawn from zoom 6 on)
GeneratedTiles(db) ==
    IF db.view[1] = <<>>
    THEN (TilesetFile :> "tileset")
    ELSE (TilesetFile :> "tileset") @@ (AirspaceTile :> db.view[1])

EtlInit ==
    /\ etl = [run |-> 0] @@ NoRun
    /\ out_dir = [o \in Outputs |-> EmptyOutput]
    /\ gcs = [stores |-> [c \in Cycles |-> None],
              metadata |-> {},
              tiles |-> [c \in Cycles |-> <<>>],
              current_cycle |-> None]
    /\ CorrectorUnused /\ QueryUnused /\ ServicesUnused /\ BuilderUnused
    /\ ParserUnused /\ TilesUnused /\ ReposUnused /\ ConnUnused
    /\ SchemaUnused

Step(pc, done) ==
    [etl EXCEPT !.pc = pc, !.steps = Append(@, done)]

\* python -m core.etl.cli --xml-path ... --cycle ... --output ... [--upload
\* [--activate]]: the run starts, the output directory is made
StartRun ==
    \E cycle \in Cycles, output \in Outputs, data \in EtlData, flags \in EtlFlags :
        /\ etl.pc = "idle"
        /\ etl.run < MaxRuns
        /\ etl' = [run |-> etl.run + 1, pc |-> "parse",
                   args |-> [cycle |-> cycle, output |-> output, data |-> data,
                             upload |-> flags.upload, activate |-> flags.activate],
                   steps |-> <<>>, todo |-> {}]
        /\ UNCHANGED <<out_dir, gcs>>

\* 1. data = parse_sia_xml(args.xml_path)
ParseStep ==
    /\ etl.pc = "parse"
    /\ etl' = Step("build", "parse_sia_xml")
    /\ UNCHANGED <<out_dir, gcs>>

\* 2. SpatiaLiteBuilder(output / skypath_<cycle>.db).build(data)
BuildStep ==
    /\ etl.pc = "build"
    /\ LET a == etl.args
           done == build(out_dir[a.output].db[a.cycle], a.data)
       IN  /\ out_dir' = [out_dir EXCEPT ![a.output].db[a.cycle] = done.file]
           /\ etl' = IF done.raised = "ok" THEN Step("generate", "build")
                     ELSE [etl EXCEPT !.pc = "idle",
                                      !.steps = Append(@, done.raised)]
    /\ UNCHANGED gcs

\* 3. TileGenerator(db_path, output / tiles).generate_all()
GenerateStep ==
    /\ etl.pc = "generate"
    /\ LET a == etl.args
           written == GeneratedTiles(out_dir[a.output].db[a.cycle][1])
       IN  /\ out_dir' = [out_dir EXCEPT ![a.output].tiles = written @@ @]
           /\ etl' = IF a.upload THEN Step("upload_db", "generate_all")
                     ELSE Step("idle", "generate_all")
    /\ UNCHANGED gcs

\* 4. upload_cycle: blob airac/<cycle>/skypath.db
UploadDb ==
    /\ etl.pc = "upload_db"
    /\ LET a == etl.args
       IN  gcs' = [gcs EXCEPT !.stores[a.cycle] =
                        <<out_dir[a.output].db[a.cycle][1].view[1]>>]
    /\ etl' = Step("upload_meta", "upload_db")
    /\ UNCHANGED out_dir

\* upload_cycle: blob airac/<cycle>/metadata.json, then the list of the
\* *.json files of the tiles directory
UploadMetadata ==
    /\ etl.pc = "upload_meta"
    /\ gcs' = [gcs EXCEPT !.metadata = @ \cup {etl.args.cycle}]
    /\ etl' = [Step(IF DOMAIN out_dir[etl.args.output].tiles = {}
                    THEN "uploaded" ELSE "upload_tiles", "upload_metadata")
                EXCEPT !.todo = DOMAIN out_dir[etl.args.output].tiles]
    /\ UNCHANGED out_dir

\* upload_cycle: one tile blob <cycle>/<rel>, in the order of rglob
UploadTile ==
    \E file \in etl.todo :
        /\ etl.pc = "upload_tiles"
        /\ LET a == etl.args
           IN  gcs' = [gcs EXCEPT !.tiles[a.cycle] =
                            (file :> out_dir[a.output].tiles[file]) @@ @]
        /\ etl' = [etl EXCEPT !.todo = @ \ {file},
                              !.pc = IF etl.todo = {file} THEN "uploaded" ELSE @,
                              !.steps = IF etl.todo = {file}
                                        THEN Append(@, "upload_cycle") ELSE @]
        /\ UNCHANGED out_dir

\* upload_cycle has returned; if args.activate: set_active_cycle(args.cycle)
Activate ==
    /\ etl.pc = "uploaded"
    /\ IF etl.args.activate
       THEN /\ gcs' = [gcs EXCEPT !.current_cycle = <<etl.args.cycle>>]
            /\ etl' = Step("idle", "set_active_cycle")
       ELSE /\ etl' = [etl EXCEPT !.pc = "idle"]
            /\ UNCHANGED gcs
    /\ UNCHANGED out_dir

\* the step the run is at raises: the exception leaves main and ends the run
Raise ==
    /\ etl.pc \notin {"idle"}
    /\ etl.pc = "uploaded" => etl.args.activate
    /\ etl' = [etl EXCEPT !.pc = "idle", !.steps = Append(@, "raised")]
    /\ UNCHANGED <<out_dir, gcs>>

etl_rest == <<corrector_vars, query_vars, services_vars, builder_vars,
                  parser_vars, tiles_vars, repos_vars, conn_vars, schema_vars>>

EtlNext ==
    \/ StartRun /\ UNCHANGED etl_rest
    \/ ParseStep /\ UNCHANGED etl_rest
    \/ BuildStep /\ UNCHANGED etl_rest
    \/ GenerateStep /\ UNCHANGED etl_rest
    \/ UploadDb /\ UNCHANGED etl_rest
    \/ UploadMetadata /\ UNCHANGED etl_rest
    \/ UploadTile /\ UNCHANGED etl_rest
    \/ Activate /\ UNCHANGED etl_rest
    \/ Raise /\ UNCHANGED etl_rest

SpecEtl == EtlInit /\ [][EtlNext]_vars

(***************************************************************************)
(* Service resolution: the tables and the airspaces it is applied to       *)
(***************************************************************************)
MaxServices == 3

ServiceSets ==
    {S \in SUBSET (1..Len(ServicePool)) : Cardinality(S) <= MaxServices}

ServedAirspaces ==
    {[espace_pk |-> <<1>>, espace_nom |-> <<"PARIS">>, espace_type |-> "TMA"],
     [espace_pk |-> <<2>>, espace_nom |-> <<"PARIS", "Nord">>, espace_type |-> "TMA"],
     [espace_pk |-> <<3>>, espace_nom |-> <<"SAINT", "DIZIER", "NORD">>,
      espace_type |-> "TMA"],
     [espace_pk |-> <<4>>, espace_nom |-> <<"PARIS", "NORD">>, espace_type |-> "SIV"],
     [espace_pk |-> <<5>>, espace_nom |-> <<"PARIS", "NORD">>, espace_type |-> "CTR"],
     [espace_pk |-> None, espace_nom |-> <<"PARIS", "NORD">>, espace_type |-> "TMA"]}

ServicesInit ==
    /\ sv_in \in {[tables |-> ServiceTables(S, column), airspace |-> a] :
                    S \in ServiceSets, column \in BOOLEAN, a \in ServedAirspaces}
    /\ sv_out = [status |-> "pending", value |-> <<>>]
    /\ CorrectorUnused /\ QueryUnused /\ BuilderUnused /\ EtlUnused
    /\ ParserUnused /\ TilesUnused /\ ReposUnused /\ ConnUnused
    /\ SchemaUnused

\* AirspaceQueryService._get_services(conn, espace_pk, espace_nom, espace_type)
GetServices ==
    /\ sv_out.status = "pending"
    /\ sv_out' = [status |-> "returned",
                  value |-> _get_services(sv_in.tables, sv_in.airspace.espace_pk,
                                          sv_in.airspace.espace_nom,
                                          sv_in.airspace.espace_type)]
    /\ UNCHANGED <<sv_in, corrector_vars, query_vars, builder_vars, etl_vars,
                  parser_vars, tiles_vars, repos_vars, conn_vars, schema_vars>>

ServicesNext == GetServices

SpecServices == ServicesInit /\ [][ServicesNext]_vars

(***************************************************************************)
(* core/etl/sia_parser.py                                                  *)
(*                                                                         *)
(* An element is [tag, attrib, children].  A tag is the sequence of the    *)
(* pieces of its text around the first "}": <<"Espace">> for Espace and    *)
(* <<"{urn:sia", "Espace">> for {urn:sia}Espace.  A text is None or <<t>>, *)
(* t without surrounding white space.                                      *)
(***************************************************************************)
\* _local_name returning the tag with its namespace
_local_name_Qualified(tag) ==
    IF Len(tag) > 1 THEN tag[1] \o "}" \o tag[2] ELSE tag[1]

\* if "}" in tag: return tag.split("}", 1)[1]
_local_name(tag) == IF Len(tag) > 1 THEN tag[2] ELSE tag[1]

\* result[key] = (child.text or "").strip() for each child in order, then
\* the attributes of the element
_element_to_dict(element) ==
    LET children == element.children
        child_keys == {_local_name(children[k].tag) : k \in DOMAIN children}
        LastChild(key) ==
            CHOOSE k \in DOMAIN children :
                /\ _local_name(children[k].tag) = key
                /\ \A h \in DOMAIN children :
                        _local_name(children[h].tag) = key => h <= k
        TextOf(child) == IF child.text = None THEN "" ELSE child.text[1]
    IN  [key \in child_keys \cup DOMAIN element.attrib |->
            IF key \in DOMAIN element.attrib THEN element.attrib[key]
            ELSE TextOf(children[LastChild(key)])]

EmptyParsedSIA ==
    [espaces |-> <<>>, parties |-> <<>>, volumes |-> <<>>, geometries |-> <<>>,
     services |-> <<>>, frequencies |-> <<>>, aerodromes |-> <<>>,
     runways |-> <<>>]

\* the if/elif chain of parse_sia_xml: <<collection>>, or None for a tag
\* that is skipped
CollectionOf(tag) ==
    IF tag = "Espace" THEN <<"espaces">>
    ELSE IF tag = "Partie" THEN <<"parties">>
    ELSE IF tag = "Volume" THEN <<"volumes">>
    ELSE IF tag = "Geometrie" THEN <<"geometries">>
    ELSE IF tag = "Service" THEN <<"services">>
    ELSE IF tag = "Frequence" THEN <<"frequencies">>
    ELSE IF tag = "Ad" THEN <<"aerodromes">>
    ELSE IF tag = "Rwy" THEN <<"runways">>
    ELSE None

\* for table in root: ... result.<collection>.append(row)
RECURSIVE ParseTables(_, _, _)
ParseTables(root, i, result) ==
    IF i > Len(root) THEN result
    ELSE LET tag == _local_name(root[i].tag)
             row == _element_to_dict(root[i])
             collection == CollectionOf(tag)
         IN  ParseTables(root, i + 1,
                IF collection = None THEN result
                ELSE [result EXCEPT ![collection[1]] = Append(@, row)])

\* a file is [wellformed, root]; Malformed is one ElementTree cannot parse
Malformed == [wellformed |-> FALSE, root |-> <<>>]

\* ET.parse raises ParseError on a malformed file; nothing catches it
parse_sia_xml(file) ==
    IF ~file.wellformed THEN [error |-> "ParseError", value |-> None]
    ELSE [error |-> "ok", value |-> <<ParseTables(file.root, 1, EmptyParsedSIA)>>]

(***************************************************************************)
(* Documents given to the parser                                           *)
(***************************************************************************)
MaxElements == 3

SiaNamespace == "{urn:sia"
Tags ==
    {<<"Espace">>, <<"Partie">>, <<"Volume">>, <<"Geometrie">>, <<"Service">>,
     <<"Frequence">>, <<"Ad">>, <<"Rwy">>,
     <<SiaNamespace, "Espace">>, <<SiaNamespace, "Obstacle">>,
     <<"Obstacle">>, <<"espace">>}

\* the i-th element of a document: attributes pk and lk, a child Nom read
\* twice by some exports, and a child without text
Element(tag, i) ==
    [tag |-> tag,
     attrib |-> [pk |-> ToString(i), lk |-> "[LF]"],
     children |-> <<[tag |-> <<"Nom">>, text |-> <<"OLD">>],
                    [tag |-> <<SiaNamespace, "Nom">>, text |-> <<"N" \o ToString(i)>>],
                    [tag |-> <<"Remarque">>, text |-> None],
                    [tag |-> <<"pk">>, text |-> <<"0">>]>>]

EmptyDocument == [wellformed |-> TRUE, root |-> <<>>]

ParserInit ==
    /\ xml_file \in {EmptyDocument, Malformed}
    /\ parsed = [status |-> "pending", error |-> "ok", value |-> None]
    /\ CorrectorUnused /\ QueryUnused /\ ServicesUnused /\ BuilderUnused
    /\ EtlUnused /\ TilesUnused /\ ReposUnused /\ ConnUnused /\ SchemaUnused

parser_rest ==
    <<corrector_vars, query_vars, services_vars, builder_vars, etl_vars, tiles_vars,
                  repos_vars, conn_vars, schema_vars>>

\* the export is written one top-level element after the other, before it
\* is given to the parser
WriteElement ==
    \E tag \in Tags :
        /\ parsed.status = "pending"
        /\ xml_file.wellformed
        /\ Len(xml_file.root) < MaxElements
        /\ xml_file' = [xml_file EXCEPT
                            !.root = Append(@, Element(tag, Len(@) + 1))]
        /\ UNCHANGED parsed

\* parse_sia_xml(xml_path)
ParseSiaXml ==
    /\ parsed.status = "pending"
    /\ LET done == parse_sia_xml(xml_file)
       IN  parsed' = [status |-> IF done.error = "ok" THEN "returned" ELSE "raised",
                      error |-> done.error, value |-> done.value]
    /\ UNCHANGED xml_file

ParserNext ==
    \/ WriteElement /\ UNCHANGED parser_rest
    \/ ParseSiaXml /\ UNCHANGED parser_rest

SpecParser == ParserInit /\ [][ParserNext]_vars

(***************************************************************************)
(* core/etl/tile_generator.py                                              *)
(*                                                                         *)
(* Longitudes and latitudes are exact rationals of degrees.  The latitude  *)
(* of a tile edge, degrees(atan(sinh(pi * t))), is read in a table of its  *)
(* values at the sixteenths t = k/16, in thousandths of a degree: the tile  *)
(* edges of the zoom levels 0 to 5.  The geometry of a row is described by *)
(* its bounding rectangle, which is what MbrIntersects looks at.           *)
(***************************************************************************)
MaxZoom == 3

ZOOM_CONFIG ==
    <<[z_min |-> 0, z_max |-> 5, type_filter |-> <<<<"FIR", "TMA">>>>,
       tolerance |-> <<1, 100>>],
      [z_min |-> 6, z_max |-> 8,
       type_filter |-> <<<<"TMA", "CTR", "SIV", "D", "R", "P">>>>,
       tolerance |-> <<1, 1000>>],
      [z_min |-> 9, z_max |-> 12, type_filter |-> None,
       tolerance |-> <<1, 10000>>]>>

RECURSIVE Pow2(_)
Pow2(z) == IF z = 0 THEN 1 ELSE 2 * Pow2(z - 1)

\* degrees(atan(sinh(pi * k/16))) for k = 1..16, in thousandths of a degree
MercatorTable ==
    <<11178, 21943, 31952, 40980, 48922, 55777, 61606, 66513,
      70613, 74020, 76841, 79171, 81093, 82676, 83979, 85051>>

\* math.degrees(math.atan(math.sinh(math.pi * t))), t a multiple of 1/16
MercatorLatitude(t) ==
    LET k == (16 * t[1]) \div t[2]
    IN  IF k = 0 THEN RInt(0)
        ELSE IF k > 0 THEN Norm(MercatorTable[k], 1000)
        ELSE Norm(-MercatorTable[-k], 1000)

\* tile_bbox with the two latitudes exchanged
tile_bbox_Exchanged(z, x, y) ==
    LET n == Pow2(z)
    IN  [lon_min |-> RSub(RMul(Norm(x, n), RInt(360)), RInt(180)),
         lat_min |-> MercatorLatitude(RSub(RInt(1), Norm(2 * y, n))),
         lon_max |-> RSub(RMul(Norm(x + 1, n), RInt(360)), RInt(180)),
         lat_max |-> MercatorLatitude(RSub(RInt(1), Norm(2 * (y + 1), n)))]

\* (lon_min, lat_min, lon_max, lat_max) of the tile; x / n * 360.0 - 180.0
\* is exact in binary floating point for n a power of two up to 2^12
tile_bbox(z, x, y) ==
    LET n == Pow2(z)
    IN  [lon_min |-> RSub(RMul(Norm(x, n), RInt(360)), RInt(180)),
         lat_min |-> MercatorLatitude(RSub(RInt(1), Norm(2 * (y + 1), n))),
         lon_max |-> RSub(RMul(Norm(x + 1, n), RInt(360)), RInt(180)),
         lat_max |-> MercatorLatitude(RSub(RInt(1), Norm(2 * y, n)))]

\* MbrIntersects(geom, BuildMbr(lon_min, lat_min, lon_max, lat_max)): the
\* two closed rectangles have a common point
MbrIntersects(mbr, bbox) ==
    /\ RGeq(mbr.lon_max, bbox.lon_min) /\ RGeq(bbox.lon_max, mbr.lon_min)
    /\ RGeq(mbr.lat_max, bbox.lat_min) /\ RGeq(bbox.lat_max, mbr.lat_min)

Feature(row) ==
    [type |-> "Feature",
     properties |-> [id |-> row.espace_pk, name |-> row.espace_nom,
                     type |-> row.espace_type, class |-> row.Classe,
                     floor_ft |-> row.altitude_floor_ft_amsl,
                     ceiling_ft |-> row.altitude_ceiling_ft_amsl],
     geometry |-> row.geojson[1]]

\* the rows of the SELECT, then the features of those with a GeoJSON text;
\* `if type_filter:` adds the condition on espace_type
_query_tile(rows, bbox, type_filter, tolerance) ==
    LET Selected(row) ==
            /\ row.geom_spatial # None
            /\ MbrIntersects(row.geom_spatial[1], bbox)
            /\ (type_filter # None /\ type_filter[1] # <<>>)
                => \E k \in DOMAIN type_filter[1] : row.espace_type = type_filter[1][k]
        selected == SelectSeq(rows, Selected)
        with_geojson == SelectSeq(selected, LAMBDA row : row.geojson # None)
    IN  [k \in DOMAIN with_geojson |-> Feature(with_geojson[k])]

TilePath(z, x, y) ==
    "airspaces/" \o ToString(z) \o "/" \o ToString(x) \o "/" \o ToString(y) \o ".json"

\* the file tile_path.write_text(json.dumps(geojson)) creates or replaces
_write_tile(z, x, y, features) ==
    [path |-> TilePath(z, x, y),
     content |-> [type |-> "FeatureCollection", features |-> features]]

\* WritesTile writing the tiles without feature too
WritesTile_Always(features) == TRUE

\* if features:
WritesTile(features) == features # <<>>

\* write_text creates the file or replaces the file of the same path; a
\* directory is the set of its files
WriteFiles(files, new) ==
    new \cup {f \in files : \A g \in new : g.path # f.path}

\* for x in range(n_tiles): for y in range(n_tiles): the tiles in the order
\* of the loops with the features of each, those written, and count, which
\* is incremented at every write.  Returns [written, count]: the files
\* written and the tile count
_generate_zoom_level(rows, z, type_filter, tolerance) ==
    LET n_tiles == Pow2(z)
        tiles == [i \in 1..(n_tiles * n_tiles) |->
                    LET x == (i - 1) \div n_tiles
                        y == (i - 1) % n_tiles
                    IN  [x |-> x, y |-> y,
                         features |-> _query_tile(rows, tile_bbox(z, x, y),
                                                  type_filter, tolerance)]]
        written == SelectSeq(tiles, LAMBDA t : WritesTile(t.features))
    IN  [written |-> {_write_tile(z, written[k].x, written[k].y, written[k].features) :
                        k \in DOMAIN written},
         count |-> Len(written)]

_write_tileset_json(files) ==
    WriteFiles(files,
        {[path |-> TilesetFile,
          content |-> [format |-> "geojson",
                       tile_url |-> "airspaces/{z}/{x}/{y}.json"]]})

\* for (z_min, z_max), type_filter, tolerance in ZOOM_CONFIG:
\*     for z in range(z_min, z_max + 1):
\* the zoom levels in the order of the two loops, with the entry of
\* ZOOM_CONFIG of each; the zoom levels above MaxZoom are left out
RECURSIVE ZoomLoop(_)
ZoomLoop(c) ==
    IF c > Len(ZOOM_CONFIG) THEN <<>>
    ELSE LET config == ZOOM_CONFIG[c]
             last == IF config.z_max > MaxZoom THEN MaxZoom ELSE config.z_max
         IN  [k \in 1..(last - config.z_min + 1) |->
                [z |-> config.z_min + k - 1, config |-> config]]
             \o ZoomLoop(c + 1)

\* total += self._generate_zoom_level(z, type_filter, tolerance), from the
\* k-th zoom level of the loop on; acc is [files, total]
RECURSIVE LevelsFrom(_, _, _)
LevelsFrom(levels, k, acc) ==
    IF k > Len(levels) THEN acc
    ELSE LevelsFrom(levels, k + 1,
                    [files |-> WriteFiles(acc.files, levels[k].written),
                     total |-> acc.total + levels[k].count])

\* returns [files, total]: the directory afterwards and the tile count
generate_all(rows, files) ==
    LET loop == ZoomLoop(1)
        levels == [k \in DOMAIN loop |->
                    _generate_zoom_level(rows, loop[k].z, loop[k].config.type_filter,
                                         loop[k].config.tolerance)]
        done == LevelsFrom(levels, 1, [files |-> files, total |-> 0])
    IN  [files |-> _write_tileset_json(done.files), total |-> done.total]

(***************************************************************************)
(* Databases and tiles given to the tile generator                         *)
(***************************************************************************)
MaxFeatures == 2

Mbr(lon_min, lat_min, lon_max, lat_max) ==
    [lon_min |-> RInt(lon_min), lat_min |-> RInt(lat_min),
     lon_max |-> RInt(lon_max), lat_max |-> RInt(lat_max)]

TileRow(espace_pk, espace_nom, espace_type, mbr, geojson) ==
    [espace_pk |-> espace_pk, espace_nom |-> espace_nom,
     espace_type |-> espace_type, Classe |-> "D",
     altitude_floor_ft_amsl |-> 0, altitude_ceiling_ft_amsl |-> 3000,
     geom_spatial |-> <<mbr>>, geojson |-> geojson]

\* a TMA inside one tile, a TMA across the meridian of Greenwich, a FIR
\* across tile edges, a CTR (drawn from zoom 6 on), a TMA whose simplified
\* geometry has no GeoJSON text, a TMA whose east side is the meridian
TileRowPool ==
    <<TileRow(1, "PARIS", "TMA", Mbr(1, 48, 4, 50), <<"Polygon">>),
      TileRow(2, "MANCHE", "TMA", Mbr(-1, 49, 1, 50), <<"Polygon">>),
      TileRow(3, "FRANCE", "FIR", Mbr(-5, 41, 8, 56), <<"Polygon">>),
      TileRow(4, "REIMS", "CTR", Mbr(4, 49, 5, 50), <<"Polygon">>),
      TileRow(5, "ACORES", "TMA", Mbr(-100, 10, -99, 11), None),
      TileRow(6, "OUESSANT", "TMA", Mbr(-2, 10, 0, 20), <<"Polygon">>)>>

TileDatabases ==
    {[k \in 1..Len(pks) |-> TileRowPool[pks[k]]] :
        pks \in {q \in UNION {[1..n -> 1..Len(TileRowPool)] : n \in 0..MaxFeatures} :
                    \A i, j \in DOMAIN q : i < j => q[i] < q[j]}}

TileCoordinates ==
    UNION {{<<z, x, y>> : x \in 0..(Pow2(z) - 1), y \in 0..(Pow2(z) - 1)} :
            z \in 0..MaxZoom}

NoTileCall == [op |-> "none", args |-> <<>>, value |-> <<>>]
TilesIdle == tile_out.op = "none"

TilesInit ==
    /\ tile_db \in TileDatabases
    /\ tiles_dir = {}
    /\ tile_out = NoTileCall
    /\ CorrectorUnused /\ QueryUnused /\ ServicesUnused /\ BuilderUnused
    /\ EtlUnused /\ ParserUnused /\ ReposUnused /\ ConnUnused
    /\ SchemaUnused

\* TileGenerator(db_path, output_dir).generate_all()
GenerateAll ==
    /\ TilesIdle
    /\ LET done == generate_all(tile_db, tiles_dir)
       IN  /\ tiles_dir' = done.files
           /\ tile_out' = [op |-> "generate_all", args |-> <<>>, value |-> done.total]
    /\ UNCHANGED tile_db

\* tile_bbox(z, x, y)
TileBbox ==
    /\ TilesIdle
    /\ \E z \in 0..MaxZoom :
        \E x, y \in 0..(Pow2(z) - 1) :
            tile_out' = [op |-> "tile_bbox", args |-> <<z, x, y>>,
                         value |-> tile_bbox(z, x, y)]
    /\ UNCHANGED <<tile_db, tiles_dir>>

\* the caller takes the outcome of its call
TakeTileOutcome ==
    /\ ~TilesIdle
    /\ tile_out' = NoTileCall
    /\ UNCHANGED <<tile_db, tiles_dir>>

tiles_rest ==
    <<corrector_vars, query_vars, services_vars, builder_vars, etl_vars, parser_vars,
                  repos_vars, conn_vars, schema_vars>>

TilesNext ==
    \/ GenerateAll /\ UNCHANGED tiles_rest
    \/ TileBbox /\ UNCHANGED tiles_rest
    \/ TakeTileOutcome /\ UNCHANGED tiles_rest

SpecTiles == TilesInit /\ [][TilesNext]_vars

(***************************************************************************)
(* core/persistence/repositories: base.py, route_repo.py                   *)
(* Documents live at users/{user_id}/{collection}/{doc_id}; a route's data  *)
(* is the sequence of its RouteWaypointRef.waypoint_id.                    *)
(***************************************************************************)
MaxRefs == 2      \* waypoint references of a route
MaxPromoted == 2  \* waypoints handed to save_with_waypoints

UserIds == {"u1", "u2"}
WaypointPool == <<"w1", "w2">>
WaypointIds == {WaypointPool[i] : i \in DOMAIN WaypointPool}
RouteIds == {"r1"}

\* UserWaypoint.to_firestore() without its id; the id is the MD5 of the content
WaypointData(wp_id) == <<"waypoint", wp_id>>

\* Route.waypoints: at least two references (Field(..., min_length=2))
RouteRefs == UNION {[1..n -> WaypointIds] : n \in 2..MaxRefs}

\* the lists of waypoints a caller passes to save_with_waypoints, each
\* waypoint once (a second set() of the same document changes nothing)
Promotions ==
    {[k \in DOMAIN q |-> WaypointPool[q[k]]] :
        q \in {r \in UNION {[1..n -> DOMAIN WaypointPool] : n \in 0..MaxPromoted} :
                    \A i, j \in DOMAIN r : i < j => r[i] < r[j]}}

Document(user, col, id, data) ==
    [user |-> user, collection |-> col, id |-> id, data |-> data]

\* DocumentReference.set(data): the document at that path is replaced
DocSet(store, user, col, id, data) ==
    {d \in store : ~(d.user = user /\ d.collection = col /\ d.id = id)}
        \cup {Document(user, col, id, data)}

\* DocumentReference.delete(): no error when the document is missing
DocDelete(store, user, col, id) ==
    {d \in store : ~(d.user = user /\ d.collection = col /\ d.id = id)}

DocIds(store, user, col) ==
    {d.id : d \in {e \in store : e.user = user /\ e.collection = col}}

\* batch.set(wp_col.document(wp_id), data) for each waypoint, in order
RECURSIVE PromoteWaypoints(_, _, _)
PromoteWaypoints(store, user, wps) ==
    IF wps = <<>> THEN store
    ELSE PromoteWaypoints(
            DocSet(store, user, "user_waypoints", Head(wps), WaypointData(Head(wps))),
            user, Tail(wps))

\* the writes of the batch of save_with_waypoints, applied by batch.commit()
save_with_waypoints(store, user, route_id, refs, wps) ==
    DocSet(PromoteWaypoints(store, user, wps), user, "routes", route_id, refs)

ReposInit ==
    /\ firestore = {}
    /\ repo_out = [op |-> "none", ok |-> TRUE]
    /\ CorrectorUnused /\ QueryUnused /\ ServicesUnused /\ BuilderUnused
    /\ EtlUnused /\ ParserUnused /\ TilesUnused /\ ConnUnused
    /\ SchemaUnused

\* RouteRepository.save_with_waypoints(user_id, route, waypoints); the route
\* carries an id, or route_col.document() gives it one; batch.commit()
\* applies every write of the batch, or raises with none applied
SaveWithWaypoints ==
    \/ \E user \in UserIds, route_id \in RouteIds, refs \in RouteRefs,
          wps \in Promotions :
        /\ firestore' = save_with_waypoints(firestore, user, route_id, refs, wps)
        /\ repo_out' = [op |-> "save_with_waypoints", ok |-> TRUE]
    \/ /\ firestore' = firestore
       /\ repo_out' = [op |-> "save_with_waypoints", ok |-> FALSE]

\* BaseRepository.create(user_id, entity) of WaypointRepository and of
\* RouteRepository
Create ==
    \/ \E user \in UserIds, wp_id \in WaypointIds :
        /\ firestore' = DocSet(firestore, user, "user_waypoints", wp_id,
                               WaypointData(wp_id))
        /\ repo_out' = [op |-> "create_waypoint", ok |-> TRUE]
    \/ \E user \in UserIds, route_id \in RouteIds, refs \in RouteRefs :
        /\ firestore' = DocSet(firestore, user, "routes", route_id, refs)
        /\ repo_out' = [op |-> "create_route", ok |-> TRUE]

\* BaseRepository.delete(user_id, doc_id) of WaypointRepository and of
\* RouteRepository
Delete ==
    \/ \E user \in UserIds, wp_id \in WaypointIds :
        /\ firestore' = DocDelete(firestore, user, "user_waypoints", wp_id)
        /\ repo_out' = [op |-> "delete_waypoint", ok |-> TRUE]
    \/ \E user \in UserIds, route_id \in RouteIds :
        /\ firestore' = DocDelete(firestore, user, "routes", route_id)
        /\ repo_out' = [op |-> "delete_route", ok |-> TRUE]

repos_rest ==
    <<corrector_vars, query_vars, services_vars, builder_vars, etl_vars,
      parser_vars, tiles_vars, conn_vars, schema_vars>>

ReposNext ==
    \/ SaveWithWaypoints /\ UNCHANGED repos_rest
    \/ Create /\ UNCHANGED repos_rest
    \/ Delete /\ UNCHANGED repos_rest

SpecRepos == ReposInit /\ [][ReposNext]_vars

(***************************************************************************)
(* Concurrent calls of AirspaceQueryService: db_manager.get_connection and *)
(* the try/finally of query_segment_airspaces and analyze_route, one step  *)
(* for each statement that opens, uses or closes a connection              *)
(***************************************************************************)
MaxCalls == 3      \* calls started by all the threads together
Threads == {1, 2}

QueryOps == {"query_segment_airspaces", "analyze_route"}

\* the statements a call executes on its connection: the segment query, and
\* for analyze_route the corridor query of the leg as well
Statements(op) == IF op = "analyze_route" THEN 2 ELSE 1

IdleCall == [pc |-> "idle", op |-> "none", call |-> 0, conn |-> 0, todo |-> 0,
             error |-> "ok"]

ConnInit ==
    /\ ready = FALSE
    /\ conns = <<>>
    /\ calls = [t \in Threads |-> IdleCall]
    /\ started = 0
    /\ CorrectorUnused /\ QueryUnused /\ ServicesUnused /\ BuilderUnused
    /\ EtlUnused /\ ParserUnused /\ TilesUnused /\ ReposUnused
    /\ SchemaUnused

\* SpatiaLiteManager.use_local(path) or download(): the store is available
MakeReady ==
    /\ ~ready
    /\ ready' = TRUE
    /\ UNCHANGED <<conns, calls, started>>

\* conn = self._manager.get_connection(), up to sqlite3.connect(uri, uri=True)
\* with uri = file:{path}?mode=ro: SpatiaLiteNotReadyError when not ready,
\* else a new connection
Connect(t) ==
    /\ calls[t].pc = "idle"
    /\ started < MaxCalls
    /\ started' = started + 1
    /\ \E op \in QueryOps :
        IF ~ready
        THEN /\ calls' = [calls EXCEPT ![t] =
                    [pc |-> "done", op |-> op, call |-> started + 1, conn |-> 0,
                     todo |-> 0, error |-> "SpatiaLiteNotReadyError"]]
             /\ UNCHANGED conns
        ELSE /\ conns' = Append(conns, [call |-> started + 1, open |-> TRUE,
                                        mode |-> "ro", users |-> {}])
             /\ calls' = [calls EXCEPT ![t] =
                    [pc |-> "loading", op |-> op, call |-> started + 1,
                     conn |-> Len(conns) + 1, todo |-> Statements(op),
                     error |-> "ok"]]
    /\ UNCHANGED ready

\* _load_spatialite(conn) in get_connection: the extension loads and the
\* connection is returned to the caller, which enters its try block; or no
\* library loads and RuntimeError leaves get_connection and the caller, whose
\* try block was not entered
LoadSpatialite(t) ==
    /\ calls[t].pc = "loading"
    /\ \E loaded \in BOOLEAN :
        calls' = [calls EXCEPT ![t] =
                    IF loaded THEN [@ EXCEPT !.pc = "querying"]
                    ELSE [@ EXCEPT !.pc = "done", !.todo = 0,
                                   !.error = "RuntimeError"]]
    /\ UNCHANGED <<ready, conns, started>>

\* conn.execute(SELECT ...) in _query_segment or _query_corridor: it returns
\* rows, or raises sqlite3.OperationalError, which leads to the finally clause
Execute(t) ==
    /\ calls[t].pc = "querying"
    /\ conns' = [conns EXCEPT ![calls[t].conn].users = @ \cup {calls[t].call}]
    /\ \E failed \in BOOLEAN :
        calls' = [calls EXCEPT ![t] =
                    IF failed
                    THEN [@ EXCEPT !.pc = "closing", !.todo = 0,
                                   !.error = "OperationalError"]
                    ELSE IF @.todo = 1
                    THEN [@ EXCEPT !.pc = "closing", !.todo = 0]
                    ELSE [@ EXCEPT !.todo = @ - 1]]
    /\ UNCHANGED <<ready, started>>

\* finally: conn.close(), after which the call returns or raises
Close(t) ==
    /\ calls[t].pc = "closing"
    /\ conns' = [conns EXCEPT ![calls[t].conn].open = FALSE]
    /\ calls' = [calls EXCEPT ![t].pc = "done"]
    /\ UNCHANGED <<ready, started>>

\* the caller has the result or the exception of its call
Return(t) ==
    /\ calls[t].pc = "done"
    /\ calls' = [calls EXCEPT ![t] = IdleCall]
    /\ UNCHANGED <<ready, conns, started>>

\* the interpreter deallocates a connection no call holds any more, which
\* closes it; when it does so is not determined by the program
Finalize ==
    \E c \in DOMAIN conns :
        /\ conns[c].open
        /\ \A t \in Threads : calls[t].conn # c \/ calls[t].pc = "idle"
        /\ conns' = [conns EXCEPT ![c].open = FALSE]
        /\ UNCHANGED <<ready, calls, started>>

conn_rest ==
    <<corrector_vars, query_vars, services_vars, builder_vars, etl_vars,
      parser_vars, tiles_vars, repos_vars, schema_vars>>

ConnNext ==
    \/ MakeReady /\ UNCHANGED conn_rest
    \/ \E t \in Threads : Connect(t) /\ UNCHANGED conn_rest
    \/ \E t \in Threads : LoadSpatialite(t) /\ UNCHANGED conn_rest
    \/ \E t \in Threads : Execute(t) /\ UNCHANGED conn_rest
    \/ \E t \in Threads : Close(t) /\ UNCHANGED conn_rest
    \/ \E t \in Threads : Return(t) /\ UNCHANGED conn_rest
    \/ Finalize /\ UNCHANGED conn_rest

SpecConn == ConnInit /\ [][ConnNext]_vars

(***************************************************************************)
(* core/persistence/spatialite/aerodrome_query.py: the queries of one      *)
(* AerodromeQueryService instance, run by threads (asyncio.to_thread), one *)
(* step for each read or write of _use_new_schema                          *)
(***************************************************************************)
MaxQueries == 3    \* queries started on the instance by all the threads

AerodromeOps == {"get_by_icao", "search_bbox"}

\* the store has the table aerodrome (current schema) or Ad (legacy)
SchemaVariants == {"current", "legacy"}

\* SELECT name FROM sqlite_master WHERE type='table' AND name='aerodrome'
_detect_schema(variant) == variant = "current"

IdleQuery == [pc |-> "idle", op |-> "none", used |-> "none"]

SchemaInit ==
    /\ ad_store \in SchemaVariants
    /\ use_new_schema = None
    /\ ad_calls = [t \in Threads |-> IdleQuery]
    /\ probes = [count |-> 0, started |-> 0, overlapped |-> FALSE]
    /\ CorrectorUnused /\ QueryUnused /\ ServicesUnused /\ BuilderUnused
    /\ EtlUnused /\ ParserUnused /\ TilesUnused /\ ReposUnused /\ ConnUnused

\* conn = self._manager.get_connection() of get_by_icao or search_bbox
ObtainConnection(t) ==
    /\ ad_calls[t].pc = "idle"
    /\ probes.started < MaxQueries
    /\ \E op \in AerodromeOps :
        ad_calls' = [ad_calls EXCEPT ![t] = [pc |-> "check", op |-> op,
                                             used |-> "none"]]
    /\ probes' = [probes EXCEPT
                    !.started = @ + 1,
                    !.overlapped = @ \/ \E u \in Threads : ad_calls[u].pc # "idle"]
    /\ UNCHANGED <<ad_store, use_new_schema>>

\* if self._use_new_schema is None:
CheckCache(t) ==
    /\ ad_calls[t].pc = "check"
    /\ ad_calls' = [ad_calls EXCEPT ![t].pc =
                        IF use_new_schema = None THEN "detect" ELSE "query"]
    /\ UNCHANGED <<ad_store, use_new_schema, probes>>

\* self._use_new_schema = self._detect_schema(conn)
DetectSchema(t) ==
    /\ ad_calls[t].pc = "detect"
    /\ use_new_schema' = <<_detect_schema(ad_store)>>
    /\ probes' = [probes EXCEPT !.count = @ + 1]
    /\ ad_calls' = [ad_calls EXCEPT ![t].pc = "query"]
    /\ UNCHANGED ad_store

\* if self._use_new_schema: return self._..._new(conn, ...) else: ..._legacy;
\* finally: conn.close()
RunQuery(t) ==
    /\ ad_calls[t].pc = "query"
    /\ ad_calls' = [ad_calls EXCEPT
                        ![t].pc = "done",
                        ![t].used = IF use_new_schema[1] THEN "current" ELSE "legacy"]
    /\ UNCHANGED <<ad_store, use_new_schema, probes>>

\* the caller has the result of its query
TakeResult(t) ==
    /\ ad_calls[t].pc = "done"
    /\ ad_calls' = [ad_calls EXCEPT ![t] = IdleQuery]
    /\ UNCHANGED <<ad_store, use_new_schema, probes>>

schema_rest ==
    <<corrector_vars, query_vars, services_vars, builder_vars, etl_vars,
      parser_vars, tiles_vars, repos_vars, conn_vars>>

SchemaNext ==
    \/ \E t \in Threads : ObtainConnection(t) /\ UNCHANGED schema_rest
    \/ \E t \in Threads : CheckCache(t) /\ UNCHANGED schema_rest
    \/ \E t \in Threads : DetectSchema(t) /\ UNCHANGED schema_rest
    \/ \E t \in Threads : RunQuery(t) /\ UNCHANGED schema_rest
    \/ \E t \in Threads : TakeResult(t) /\ UNCHANGED schema_rest

SpecSchema == SchemaInit /\ [][SchemaNext]_vars

(***************************************************************************)
(* Properties of the corrector                                             *)
(***************************************************************************)
Returned == rc_out.status = "returned"
Out == rc_out.value
In == rc_in.waypoints
NIn == Len(In)

\* the input waypoints are named apart, so a base waypoint is found by name
IsBaseName(nm) == \E i \in 1..NIn : In[i].name = nm
PosOf(i) == CHOOSE j \in 1..Len(Out) : Out[j].name = In[i].name
BasePresent == \A i \in 1..NIn : \E j \in 1..Len(Out) : Out[j].name = In[i].name
InsertedBetween(i) == PosOf(i + 1) - PosOf(i) - 1

\* altitude difference, required distance and length of the leg leaving base waypoint i
LegAltDiff(i) == Abs(Out[PosOf(i + 1)].altitude_ft - Out[PosOf(i)].altitude_ft)
LegRequiredNm(i) ==
    Norm(rc_in.ground_speed_kt * LegAltDiff(i), rc_in.climb_rate_fpm * 60)
LegLengthNm(i) ==
    RMul(RAbs(RSub(In[i + 1].latitude, In[i].latitude)), ArcUnit)

\* C5: between two consecutive base waypoints nothing is inserted when their
\* altitudes differ by less than 100 ft, exactly one waypoint is inserted when
\* they differ by at least 100 ft and the required climb/descent distance is
\* strictly less than the leg, nothing when the required distance is >= the leg.
C5_InsertionRule ==
    (Returned /\ NIn >= 2) =>
        /\ BasePresent
        /\ \A i \in 1..(NIn - 1) :
            /\ LegAltDiff(i) < 100 => InsertedBetween(i) = 0
            /\ (LegAltDiff(i) >= 100 /\ RLess(LegRequiredNm(i), LegLengthNm(i)))
                    => InsertedBetween(i) = 1
            /\ RGeq(LegRequiredNm(i), LegLengthNm(i)) => InsertedBetween(i) = 0

\* a route with one leg of each kind: an insertion, a change of 100 ft or
\* more that needs the whole leg, and a change below 100 ft
C5_Witness ==
    /\ Returned /\ NIn >= 2 /\ BasePresent
    /\ \E i \in 1..(NIn - 1) :
            LegAltDiff(i) >= 100 /\ RLess(LegRequiredNm(i), LegLengthNm(i))
            /\ InsertedBetween(i) = 1
    /\ \E i \in 1..(NIn - 1) :
            LegAltDiff(i) >= 100 /\ LegRequiredNm(i) = LegLengthNm(i)
            /\ InsertedBetween(i) = 0

\* the imported altitude in feet: metres x 3.28084
ImportedFt(i) == RMul(In[i].altitude_m, METERS_TO_FEET)

\* altitude claimed for an end of the route with ground elevation ground_ft
EndAltitude(i, ground_ft) ==
    IF ground_ft # None THEN ground_ft[1] + rc_in.pattern_alt_ft
    ELSE IF RLess(ImportedFt(i), <<50, 1>>) THEN rc_in.min_alt_ft
    ELSE Round(ImportedFt(i))

\* C6: the first output waypoint is at dep_ground_ft + pattern_alt_ft when the
\* departure ground is given, otherwise at the imported altitude in feet
\* (to the nearest foot), replaced by min_alt_ft exactly when the imported
\* value is below 50 ft; the last output waypoint likewise with arr_ground_ft.
C6_EndAltitudes ==
    (Returned /\ NIn >= 2) =>
        /\ Len(Out) >= 2
        /\ Out[1].name = In[1].name
        /\ Out[1].altitude_ft = EndAltitude(1, rc_in.dep_ground_ft)
        /\ Out[Len(Out)].name = In[NIn].name
        /\ Out[Len(Out)].altitude_ft = EndAltitude(NIn, rc_in.arr_ground_ft)

\* departure without ground elevation imported below 50 ft, arrival with
\* ground elevation
C6_Witness ==
    /\ Returned /\ NIn >= 2
    /\ rc_in.dep_ground_ft = None /\ RLess(ImportedFt(1), <<50, 1>>)
    /\ Out[1].altitude_ft = rc_in.min_alt_ft
    /\ rc_in.arr_ground_ft # None
    /\ Out[Len(Out)].altitude_ft = rc_in.arr_ground_ft[1] + rc_in.pattern_alt_ft
    /\ Out[Len(Out)].altitude_ft # Out[1].altitude_ft

\* the synthesized waypoints of the output and the leg each stands on
SynthIdx == {j \in 1..Len(Out) : ~IsBaseName(Out[j].name)}
OnLeg(j) ==
    /\ 1 < j /\ j < Len(Out)
    /\ IsBaseName(Out[j - 1].name) /\ IsBaseName(Out[j + 1].name)
OnFinalLeg(j) == Out[j + 1].name = In[NIn].name
Climbing(j) == Out[j + 1].altitude_ft > Out[j - 1].altitude_ft
Descending(j) == Out[j + 1].altitude_ft < Out[j - 1].altitude_ft
LegTarget(j) ==
    IF OnFinalLeg(j) THEN Out[j - 1].altitude_ft ELSE Out[j + 1].altitude_ft
TaggedIntermediate(j) ==
    /\ Out[j].is_intermediate
    /\ Climbing(j) => Out[j].altitude_source = "intermediate_climb"
    /\ Descending(j) => Out[j].altitude_source = "intermediate_desc"
    /\ Climbing(j) \/ Descending(j)

\* C7 as stated: every synthesized waypoint is named CLIMB_<t> or DESC_<t>
\* with t the leg's target altitude (next waypoint's altitude, or the current
\* one's on the final leg), has altitude t and is tagged intermediate.
C7_NameIsTarget ==
    Returned =>
        \A j \in SynthIdx :
            /\ OnLeg(j)
            /\ Climbing(j) => Out[j].name = "CLIMB_" \o ToString(LegTarget(j))
            /\ Descending(j) => Out[j].name = "DESC_" \o ToString(LegTarget(j))
            /\ Out[j].altitude_ft = LegTarget(j)
            /\ TaggedIntermediate(j)

\* C7 amended: as above, except that a descent on the final leg is named
\* after the arrival altitude (DESC_<next waypoint's altitude>) while its own
\* altitude stays t, the current waypoint's altitude.
C7_NameAmended ==
    Returned =>
        \A j \in SynthIdx :
            /\ OnLeg(j)
            /\ Climbing(j) => Out[j].name = "CLIMB_" \o ToString(LegTarget(j))
            /\ (Descending(j) /\ ~OnFinalLeg(j))
                    => Out[j].name = "DESC_" \o ToString(LegTarget(j))
            /\ (Descending(j) /\ OnFinalLeg(j))
                    => Out[j].name = "DESC_" \o ToString(Out[j + 1].altitude_ft)
            /\ Out[j].altitude_ft = LegTarget(j)
            /\ TaggedIntermediate(j)

\* a climb on a first leg, and a descent on the final leg named after the
\* arrival altitude
C7_Witness ==
    /\ Returned
    /\ \E j \in SynthIdx : OnLeg(j) /\ Climbing(j) /\ ~OnFinalLeg(j)
    /\ \E j \in SynthIdx : OnLeg(j) /\ Descending(j) /\ OnFinalLeg(j)
            /\ Out[j].name = "DESC_" \o ToString(Out[j + 1].altitude_ft)
            /\ Out[j].altitude_ft = Out[j - 1].altitude_ft

\* fraction of the leg, counted from its start, at which waypoint j stands
FractionOf(j) ==
    RDiv(RSub(Out[j].latitude, Out[j - 1].latitude),
         RSub(Out[j + 1].latitude, Out[j - 1].latitude))
\* required distance / segment distance of the leg waypoint j stands on
RequiredOverSegment(j) ==
    RDiv(Norm(rc_in.ground_speed_kt
                * Abs(Out[j + 1].altitude_ft - Out[j - 1].altitude_ft),
              rc_in.climb_rate_fpm * 60),
         RMul(RAbs(RSub(Out[j + 1].latitude, Out[j - 1].latitude)), ArcUnit))

\* C8: a synthesized waypoint stands at the fraction required/segment from the
\* start of a non-final leg and at 1 - required/segment on the final leg; the
\* fraction is strictly between 0 and 1.
C8_Placement ==
    Returned =>
        \A j \in SynthIdx :
            /\ OnLeg(j)
            /\ Out[j + 1].latitude # Out[j - 1].latitude
            /\ ~OnFinalLeg(j) => FractionOf(j) = RequiredOverSegment(j)
            /\ OnFinalLeg(j) => FractionOf(j) = RSub(<<1, 1>>, RequiredOverSegment(j))
            /\ RLess(<<0, 1>>, FractionOf(j)) /\ RLess(FractionOf(j), <<1, 1>>)
            /\ Out[j].longitude = Out[j - 1].longitude

\* a route with a synthesized waypoint on a non-final leg and one on the
\* final leg, neither at the middle of its leg
C8_Witness ==
    /\ Returned
    /\ \E j \in SynthIdx : OnLeg(j) /\ ~OnFinalLeg(j) /\ FractionOf(j) # <<1, 2>>
    /\ \E j \in SynthIdx : OnLeg(j) /\ OnFinalLeg(j) /\ FractionOf(j) # <<1, 2>>

\* the scenario of C9: three waypoints, 40 NM in all, interior imported at
\* 3000 ft, grounds 200 ft and 550 ft, 500 fpm, 100 kt, pattern 1000 ft
Scenario ==
    /\ NIn = 3
    /\ rc_in.dep_ground_ft = <<200>> /\ rc_in.arr_ground_ft = <<550>>
    /\ rc_in.climb_rate_fpm = 500 /\ rc_in.ground_speed_kt = 100
    /\ rc_in.pattern_alt_ft = 1000
    /\ Round(ImportedFt(2)) = 3000
    /\ RAdd(LegLengthNm(1), LegLengthNm(2)) = <<40, 1>>

DistanceNm(w1, w2) == RMul(RAbs(RSub(w2.latitude, w1.latitude)), ArcUnit)

FiveWaypoints ==
    /\ Len(Out) = 5
    /\ Out[1].name = In[1].name /\ Out[1].altitude_ft = 1200
    /\ Out[2].name = "CLIMB_3000" /\ DistanceNm(Out[1], Out[2]) = <<6, 1>>
    /\ Out[3].name = In[2].name /\ Out[3].altitude_ft = 3000
    /\ Out[4].name = "DESC_1550" /\ DistanceNm(Out[4], Out[5]) = <<29, 6>>
    /\ Out[5].name = In[3].name /\ Out[5].altitude_ft = 1550

\* C9 as stated: in the scenario the result is departure (1200 ft), CLIMB_3000
\* at 6 NM from departure, the interior waypoint (3000 ft), DESC_1550 at
\* 4.83 NM (29/6 NM) before arrival, arrival (1550 ft).
C9_Scenario == (Returned /\ Scenario) => FiveWaypoints

\* C9 amended: the same, for an interior waypoint more than 6 NM from
\* departure and more than 29/6 NM from arrival.
C9_ScenarioAmended ==
    (Returned /\ Scenario
        /\ RLess(<<6, 1>>, LegLengthNm(1)) /\ RLess(<<29, 6>>, LegLengthNm(2)))
    => FiveWaypoints

C9_Witness ==
    /\ Returned /\ Scenario
    /\ RLess(<<6, 1>>, LegLengthNm(1)) /\ RLess(<<29, 6>>, LegLengthNm(2))
    /\ FiveWaypoints

\* C10: every interior input waypoint is in the output with its name and
\* coordinates and with its imported altitude (metres x 3.28084 to the
\* nearest foot), whatever the ground elevations and floors.
C10_InteriorKept ==
    Returned =>
        \A i \in 2..(NIn - 1) :
            \E j \in 1..Len(Out) :
                /\ Out[j].name = In[i].name
                /\ Out[j].latitude = In[i].latitude
                /\ Out[j].longitude = In[i].longitude
                /\ Out[j].altitude_ft = Round(ImportedFt(i))
                /\ ~Out[j].is_intermediate

\* an interior waypoint imported below 50 ft on a route whose two ends have
\* ground elevations, kept below min_alt_ft
C10_Witness ==
    /\ Returned /\ NIn >= 3
    /\ rc_in.dep_ground_ft # None /\ rc_in.arr_ground_ft # None
    /\ RLess(ImportedFt(2), <<50, 1>>)
    /\ \E j \in 1..Len(Out) :
            Out[j].name = In[2].name /\ Out[j].altitude_ft < rc_in.min_alt_ft

\* a leg whose two end points are the same point
ZeroLength(i) ==
    In[i].latitude = In[i + 1].latitude /\ In[i].longitude = In[i + 1].longitude

\* C22: correct_route of zero or one waypoint returns the empty list, and a
\* leg whose end points coincide gets no synthesized waypoint, whatever the
\* altitude difference between its end points (climb rate positive).
C22_DegenerateInputs ==
    Returned =>
        /\ NIn < 2 => Out = <<>>
        /\ NIn >= 2 =>
            /\ rc_in.climb_rate_fpm > 0
            /\ BasePresent
            /\ \A i \in 1..(NIn - 1) : ZeroLength(i) => InsertedBetween(i) = 0

\* a route with a zero-length leg climbing 100 ft or more, next to a leg on
\* which a waypoint was synthesized
C22_Witness ==
    /\ Returned
    /\ NIn = 3
    /\ \E i \in 1..2 :
        /\ ZeroLength(i)
        /\ LegAltDiff(i) >= 100
        /\ InsertedBetween(i) = 0
        /\ InsertedBetween(3 - i) = 1


(***************************************************************************)
(* Properties of the query engine                                          *)
(***************************************************************************)
SegmentAnswered == q_out.op = "query_segment_airspaces" /\ q_out.error = "ok"
RouteAnswered == q_out.op = "analyze_route" /\ q_out.error = "ok"
Range(seq) == {seq[k] : k \in DOMAIN seq}

\* C1: for every leg of analyze_route no identifier is both in the leg's
\* route_airspaces and in its corridor_airspaces.
C1_DisjointIdentifiers ==
    RouteAnswered =>
        \A k \in DOMAIN q_out.value :
            \A a \in Range(q_out.value[k].route_airspaces) :
                \A b \in Range(q_out.value[k].corridor_airspaces) :
                    a.identifier # b.identifier

ContainsAltitude(r, altitude_ft) ==
    r.lower_limit_ft <= altitude_ft /\ altitude_ft <= r.upper_limit_ft

\* C2: every result of query_segment_airspaces has lower_limit_ft <=
\* altitude_ft <= upper_limit_ft, and so has every corridor result of a leg
\* for the planned altitude of that leg.
C2_AltitudeBand ==
    /\ SegmentAnswered =>
        \A r \in Range(q_out.value) : ContainsAltitude(r, q_out.args.altitude_ft)
    /\ RouteAnswered =>
        \A k \in DOMAIN q_out.value :
            \A r \in Range(q_out.value[k].corridor_airspaces) :
                ContainsAltitude(r, q_out.args.legs[k].altitude_ft)

\* a leg flown at the floor of a band with a direct and a corridor result
C2_Witness ==
    /\ RouteAnswered
    /\ \E k \in DOMAIN q_out.value :
        /\ q_out.value[k].route_airspaces # <<>>
        /\ \E r \in Range(q_out.value[k].corridor_airspaces) :
                r.lower_limit_ft = q_out.args.legs[k].altitude_ft

\* the geometry a part is classified on: its first row in the view
PartGeometry(partie_id) ==
    LET rows == store_file[1]
        k == CHOOSE j \in DOMAIN rows :
                /\ ToString(rows[j].partie_pk) = partie_id
                /\ \A h \in 1..(j - 1) : ToString(rows[h].partie_pk) # partie_id
    IN  rows[k].geometry
StartInside(r) == ST_Contains(PartGeometry(r.partie_id), q_out.args.lat1)
EndInside(r) == ST_Contains(PartGeometry(r.partie_id), q_out.args.lat2)
Crossing(r) ==
    ST_Crosses(MakeLine(q_out.args.lat1, q_out.args.lat2), PartGeometry(r.partie_id))

\* C3: a part is INSIDE if both end points are contained; otherwise CROSSES
\* if the crossing predicate holds; otherwise EXIT if the start point is
\* contained; otherwise ENTRY if the end point is; otherwise CROSSES.
C3_ClassificationOrder ==
    SegmentAnswered =>
        \A r \in Range(q_out.value) :
            /\ (StartInside(r) /\ EndInside(r)) => r.intersection_type = "INSIDE"
            /\ (~(StartInside(r) /\ EndInside(r)) /\ Crossing(r))
                    => r.intersection_type = "CROSSES"
            /\ (StartInside(r) /\ ~EndInside(r) /\ ~Crossing(r))
                    => r.intersection_type = "EXIT"
            /\ (~StartInside(r) /\ EndInside(r) /\ ~Crossing(r))
                    => r.intersection_type = "ENTRY"
            /\ (~StartInside(r) /\ ~EndInside(r) /\ ~Crossing(r))
                    => r.intersection_type = "CROSSES"

\* a segment with both ends inside a part it also crosses (INSIDE wins), and
\* a part that only holds its start (EXIT)
C3_Witness ==
    /\ SegmentAnswered
    /\ \E r \in Range(q_out.value) :
            StartInside(r) /\ EndInside(r) /\ Crossing(r)
            /\ r.intersection_type = "INSIDE"
    /\ \E r \in Range(q_out.value) :
            StartInside(r) /\ ~EndInside(r) /\ ~Crossing(r)
            /\ r.intersection_type = "EXIT"

\* C4: while no store has been attached, query_segment_airspaces and
\* analyze_route end with SpatiaLiteNotReadyError, never with a list.
C4_NotReadyPropagates ==
    (local_path = None /\ q_out.op \in {"query_segment_airspaces", "analyze_route"})
        => q_out.error = "SpatiaLiteNotReadyError"

\* analyze_route of a route with legs called before any store is attached
C4_Witness ==
    /\ local_path = None
    /\ q_out.op = "analyze_route"
    /\ q_out.args.legs # <<>>
    /\ q_out.error = "SpatiaLiteNotReadyError"
    /\ q_out.value = <<>>

\* C18: analyze_route returns one LegAirspaces per input leg, the i-th
\* describing the i-th leg: same from_seq, to_seq and planned altitude, and
\* the names of the waypoints at these 1-based positions.
C18_LegOrder ==
    RouteAnswered =>
        /\ Len(q_out.value) = Len(q_out.args.legs)
        /\ \A k \in DOMAIN q_out.args.legs :
            LET leg == q_out.args.legs[k]
                res == q_out.value[k]
            IN  /\ res.from_seq = leg.from_seq
                /\ res.to_seq = leg.to_seq
                /\ res.planned_altitude_ft = leg.altitude_ft
                /\ res.from_waypoint = q_out.args.waypoints[leg.from_seq].name
                /\ res.to_waypoint = q_out.args.waypoints[leg.to_seq].name

\* a route of two different legs was analysed
C18_Witness ==
    /\ RouteAnswered
    /\ Len(q_out.args.legs) = 2
    /\ q_out.args.legs[1] # q_out.args.legs[2]
    /\ Len(q_out.value) = 2

ReverseOf(intersection_type) ==
    CASE intersection_type = "ENTRY" -> "EXIT"
      [] intersection_type = "EXIT" -> "ENTRY"
      [] OTHER -> intersection_type

\* the classification of the part of a result for the reversed segment
ReversedClassification(r) ==
    LET pk == CHOOSE p \in Parts : ToString(p) = r.partie_id
    IN  _classify_intersection(store_file[1], q_out.args.lat2, q_out.args.lat1, pk)

\* C19: for a part and a segment (A, B), if the classification of (A, B) is
\* INSIDE or CROSSES, the classification of (B, A) is the same; if it is
\* ENTRY that of (B, A) is EXIT, and if it is EXIT that of (B, A) is ENTRY.
C19_ReversalSymmetry ==
    SegmentAnswered =>
        /\ \A r \in Range(q_out.value) :
                ReversedClassification(r) = ReverseOf(r.intersection_type)
        /\ \A p \in Parts :
                _classify_intersection(store_file[1], q_out.args.lat2,
                                       q_out.args.lat1, p)
                = ReverseOf(_classify_intersection(store_file[1], q_out.args.lat1,
                                                   q_out.args.lat2, p))

\* a segment entering a part: reversed, it leaves it
C19_Witness ==
    /\ SegmentAnswered
    /\ \E r \in Range(q_out.value) :
            /\ r.intersection_type = "ENTRY"
            /\ ReversedClassification(r) = "EXIT"

\* the rows of the view of the airspace e, and the results returned for it
RowsOf(e) == {k \in DOMAIN store_file[1] : store_file[1][k].espace_pk = e.pk}
ResultsFor(e) == {k \in DOMAIN q_out.value : q_out.value[k].identifier = e.Nom}
HoldsSegment(row) ==
    /\ ST_Contains(row.geometry, q_out.args.lat1)
    /\ ST_Contains(row.geometry, q_out.args.lat2)
    /\ row.altitude_floor_ft_amsl <= q_out.args.altitude_ft
    /\ q_out.args.altitude_ft <= row.altitude_ceiling_ft_amsl
CTRs == {k \in DOMAIN Espaces : Espaces[k].TypeEspace = "CTR"}

\* C20 as stated: if both end points of the segment lie inside the geometry
\* of a CTR and the altitude is within its band, query_segment_airspaces
\* returns exactly one result for that CTR, classified INSIDE.
C20_OneInsideResult ==
    SegmentAnswered =>
        \A c \in CTRs :
            (\E k \in RowsOf(Espaces[c]) : HoldsSegment(store_file[1][k])) =>
                /\ Cardinality(ResultsFor(Espaces[c])) = 1
                /\ \A k \in ResultsFor(Espaces[c]) :
                        q_out.value[k].intersection_type = "INSIDE"

\* C20, amended: if the CTR has a single row in the view (one part, one
\* volume, one geometry), both end points of the segment lie inside its
\* geometry and the altitude is within its band, query_segment_airspaces
\* returns exactly one result for that CTR, classified INSIDE.
C20_OneInsideResultAmended ==
    SegmentAnswered =>
        \A c \in CTRs :
            (/\ Cardinality(RowsOf(Espaces[c])) = 1
             /\ \E k \in RowsOf(Espaces[c]) : HoldsSegment(store_file[1][k])) =>
                /\ Cardinality(ResultsFor(Espaces[c])) = 1
                /\ \A k \in ResultsFor(Espaces[c]) :
                        q_out.value[k].intersection_type = "INSIDE"

\* a segment inside the single row of the CTR, flown at the floor of its
\* band, next to another airspace: one INSIDE result for the CTR
C20_Witness ==
    /\ SegmentAnswered
    /\ Len(store_file[1]) = 2
    /\ \E c \in CTRs :
        /\ Cardinality(RowsOf(Espaces[c])) = 1
        /\ \E k \in RowsOf(Espaces[c]) :
            /\ HoldsSegment(store_file[1][k])
            /\ store_file[1][k].altitude_floor_ft_amsl = q_out.args.altitude_ft
        /\ \E k \in ResultsFor(Espaces[c]) : q_out.value[k].intersection_type = "INSIDE"

\* the type code of the row of the view a result was made from
TypeCodeOf(r) ==
    LET rows == store_file[1]
        k == CHOOSE j \in DOMAIN rows :
                /\ ToString(rows[j].partie_pk) = r.partie_id
                /\ ToString(rows[j].volume_pk) = r.volume_id
    IN  rows[k].espace_type
Denylist == {"CTL", "ACC", "UAC", "UIR", "UTA", "FRA", "LTA", "OCA"}

\* C21: no result of query_segment_airspaces, and no direct or corridor
\* result of analyze_route, comes from a row whose type code is in the
\* denylist CTL, ACC, UAC, UIR, UTA, FRA, LTA, OCA.
C21_DenylistExcluded ==
    /\ SegmentAnswered =>
        \A r \in Range(q_out.value) : TypeCodeOf(r) \notin Denylist
    /\ RouteAnswered =>
        \A k \in DOMAIN q_out.value :
            /\ \A r \in Range(q_out.value[k].route_airspaces) :
                    TypeCodeOf(r) \notin Denylist
            /\ \A r \in Range(q_out.value[k].corridor_airspaces) :
                    TypeCodeOf(r) \notin Denylist

\* a route whose leg meets a UIR row on the line and another leg (or the
\* same) has a UIR row in its corridor only, both in the altitude band
C21_Witness ==
    /\ RouteAnswered
    /\ \E k \in DOMAIN q_out.value, j \in DOMAIN store_file[1] :
        LET leg == q_out.args.legs[k]
            wps == q_out.args.waypoints
        IN  /\ store_file[1][j].espace_type = "UIR"
            /\ SegmentSelects(store_file[1][j], wps[leg.from_seq].lat,
                              wps[leg.to_seq].lat, leg.altitude_ft)
    /\ \E k \in DOMAIN q_out.value, j \in DOMAIN store_file[1] :
        LET leg == q_out.args.legs[k]
            wps == q_out.args.waypoints
        IN  /\ store_file[1][j].espace_type = "UIR"
            /\ CorridorSelects(store_file[1][j], wps[leg.from_seq].lat,
                               wps[leg.to_seq].lat, leg.altitude_ft,
                               q_out.args.corridor_nm)


(***************************************************************************)
(* Properties of the service resolution                                    *)
(***************************************************************************)
ServicesReturned == sv_out.status = "returned"
Lookups == sv_out.value.lookups
FoundServices == sv_out.value.services
ServedAirspace == sv_in.airspace
LookupsOf(tier) == {k \in 1..Len(Lookups) : Lookups[k].tier = tier}

\* the Service records linked to the airspace by their EspaceRef
DirectlyLinked ==
    {k \in 1..Len(sv_in.tables.Service) :
        /\ sv_in.tables.EspaceRefColumn
        /\ ServedAirspace.espace_pk # None
        /\ sv_in.tables.Service[k].EspaceRef = ServedAirspace.espace_pk}

ImpliedServiceType ==
    CASE ServedAirspace.espace_type = "SIV" -> <<"Information">>
      [] ServedAirspace.espace_type = "TMA" -> <<"Approche">>
      [] OTHER -> None

TierRank(tier) ==
    CASE tier = "direct" -> 1 [] tier = "exact" -> 2 [] tier = "parent" -> 3

IsDirectService(sv) ==
    \E k \in DirectlyLinked :
        /\ sv_in.tables.Service[k].IndicLieu = sv.callsign
        /\ sv_in.tables.Service[k].IndicService = sv.service_type

\* C16: the tiers of the service resolution are consulted strictly in order:
\* the exact-name lookup is made only when the direct link returned no row,
\* the parent-name lookup only when the exact-name lookup returned no row
\* either; the lookups by name ask for the service type implied by the
\* category of the airspace (SIV: Information, TMA: Approche) and return only
\* services of that type; when the direct link returns a row, the result
\* holds directly linked services only.
C16_TierOrder ==
    ServicesReturned =>
        /\ \A i, j \in 1..Len(Lookups) :
                i < j => TierRank(Lookups[i].tier) < TierRank(Lookups[j].tier)
        /\ LookupsOf("exact") # {} => DirectlyLinked = {}
        /\ LookupsOf("parent") # {} =>
                \E k \in LookupsOf("exact") : Lookups[k].rows = <<>>
        /\ \A k \in LookupsOf("exact") \cup LookupsOf("parent") :
                /\ ImpliedServiceType # None
                /\ Lookups[k].service_type = ImpliedServiceType
        /\ DirectlyLinked = {} =>
                \A k \in 1..Len(FoundServices) :
                    <<FoundServices[k].service_type>> = ImpliedServiceType
        /\ DirectlyLinked # {} =>
                /\ FoundServices # <<>>
                /\ \A k \in 1..Len(FoundServices) : IsDirectService(FoundServices[k])

\* the three tiers were consulted and the third one found the services
C16_Witness ==
    /\ ServicesReturned
    /\ Len(Lookups) = 3
    /\ Lookups[3].tier = "parent"
    /\ FoundServices # <<>>

\* the parent name and the sector suffix as the third tier is described
NameUpToLastSpace(nom) == SubSeq(nom, 1, Len(nom) - 1)
SuffixAfterLastSpace(nom) == <<UpperWord(nom[Len(nom)])>>

\* C17: in the third tier the parent name is the display name up to its last
\* space and the sector suffix the text after it; the rows found under the
\* parent name whose sector qualifier contains the suffix are returned when
\* there is one, and all the rows found under the parent name otherwise.
C17_ParentUpToLastSpace ==
    ServicesReturned =>
        \A k \in LookupsOf("parent") :
            LET nom == ServedAirspace.espace_nom
                under_parent == NameRows(sv_in.tables, NameUpToLastSpace(nom),
                                         ImpliedServiceType[1])
            IN  /\ Lookups[k].name = <<NameUpToLastSpace(nom)>>
                /\ FoundServices =
                     GroupRows(SectorRows(under_parent, SuffixAfterLastSpace(nom)), <<>>)

(***************************************************************************)
(* Properties of the builder                                               *)
(***************************************************************************)
Built == db_file # None /\ builds # <<>>
BuiltView == db_file[1].view[1]
NumericTexts == {"2", "49", "65", "2700", "3000", "5000"}

\* C11: after build, every row of airspace_spatial_indexed has
\* altitude_floor_ft_amsl <= altitude_ceiling_ft_amsl, whatever the Volume
\* records of the input.
C11_FloorBelowCeiling ==
    Built =>
        \A t \in DOMAIN BuiltView :
            BuiltView[t].altitude_floor_ft_amsl <= BuiltView[t].altitude_ceiling_ft_amsl

\* C12: two builds with the same records on the same output location leave
\* the store a single build of these records on a new file leaves.
C12_Idempotent ==
    (Len(builds) = 2 /\ builds[1].data = builds[2].data) =>
        db_file = build(None, builds[1].data).file

\* C15: building from records whose floor, ceiling, latitude, longitude or
\* length hold empty or non-numeric text does not raise; such a latitude,
\* longitude or length is stored as null, and such a floor is 0 and such a
\* ceiling 99999 in the view.
C15_NonNumericAsMissing ==
    Built =>
        /\ builds[1].raised = "ok"
        /\ \A k \in DOMAIN db_file[1].Ad :
                /\ db_file[1].Ad[k].ArpLat # None =>
                        builds[1].data.aerodromes[1].ArpLat[1] \in NumericTexts
                /\ db_file[1].Ad[k].ArpLon # None =>
                        builds[1].data.aerodromes[1].ArpLon[1] \in NumericTexts
        /\ \A k \in DOMAIN db_file[1].Rwy :
                db_file[1].Rwy[k].Longueur # None =>
                        builds[1].data.runways[1].Longueur[1] \in NumericTexts
        /\ \A t \in DOMAIN BuiltView :
                LET v == db_file[1].Volume[t[2]]
                IN  /\ v.PlancherVal[1] \notin NumericTexts =>
                            BuiltView[t].altitude_floor_ft_amsl = 0
                    /\ v.PlafondVal[1] \notin NumericTexts =>
                            BuiltView[t].altitude_ceiling_ft_amsl = 99999

(***************************************************************************)
(* Properties of the ETL run                                               *)
(***************************************************************************)
Running == etl.args # None
HasBrokenWkt(data) ==
    \E k \in DOMAIN data.geometries :
        data.geometries[k].WKT # "" /\ GeomFromText(data.geometries[k].WKT) = None
StepsDone == {etl.steps[k] : k \in DOMAIN etl.steps}

\* C13: if a Geometry record of the input carries unparsable WKT, build
\* raises: the run does not go on to the tile generation, the upload or the
\* activation.
C13_BrokenWktStopsRun ==
    (Running /\ HasBrokenWkt(etl.args.data)) =>
        StepsDone \cap {"build", "generate_all", "upload_db", "upload_metadata",
                        "upload_cycle", "set_active_cycle"} = {}

IsPrefix(p, q) == Len(p) <= Len(q) /\ \A k \in DOMAIN p : q[k] = p[k]

\* what a reader of the cycle c finds: its store, and for every tile made
\* from that store the blob of this tile
Complete(c) ==
    /\ gcs.stores[c] # None
    /\ c \in gcs.metadata
    /\ LET made == GeneratedTiles([view |-> gcs.stores[c]])
       IN  \A file \in DOMAIN made :
                /\ file \in DOMAIN gcs.tiles[c]
                /\ gcs.tiles[c][file] = made[file]

\* the order of the steps of a run: the upload starts after parsing, build
\* and generate_all, the activation after the whole upload
C14_StepOrder ==
    /\ (etl.pc \in {"upload_db", "upload_meta", "upload_tiles", "uploaded"}
            \/ "upload_db" \in StepsDone) =>
            IsPrefix(<<"parse_sia_xml", "build", "generate_all">>, etl.steps)
    /\ "set_active_cycle" \in StepsDone =>
            IsPrefix(<<"parse_sia_xml", "build", "generate_all", "upload_db",
                       "upload_metadata", "upload_cycle">>, etl.steps)

\* a step that raises, and every step before the activation, leaves the
\* current_cycle pointer as it is
C14_PointerKept ==
    [][gcs'.current_cycle # gcs.current_cycle =>
            /\ etl.pc = "uploaded"
            /\ gcs'.current_cycle = <<etl.args.cycle>>
            /\ "raised" \notin {etl'.steps[k] : k \in DOMAIN etl'.steps}]_vars

\* C14: upload_cycle starts only after parsing, build and generate_all have
\* completed, the pointer is set to the cycle only after its store and all
\* its tiles are uploaded, and a reader resolving the pointer never reaches
\* a cycle whose store or tiles are incomplete.
C14_NoPartialCycle ==
    /\ C14_StepOrder
    /\ gcs.current_cycle # None => Complete(gcs.current_cycle[1])

(***************************************************************************)
(* Properties of the parser                                                *)
(***************************************************************************)
Parsed == parsed.status = "returned"
RecognizedTables ==
    {<<"Espace", "espaces">>, <<"Partie", "parties">>, <<"Volume", "volumes">>,
     <<"Geometrie", "geometries">>, <<"Service", "services">>,
     <<"Frequence", "frequencies">>, <<"Ad", "aerodromes">>,
     <<"Rwy", "runways">>}
\* the tag of an element without its namespace
Stripped(element) == element.tag[Len(element.tag)]
\* the top-level elements of the document with a given tag, in document order
ElementsTagged(name) == SelectSeq(xml_file.root, LAMBDA e : Stripped(e) = name)

\* C23: parse_sia_xml puts each top-level element whose namespace-stripped
\* tag is one of the eight recognized names into exactly the collection of
\* that table, in document order; elements with another tag are dropped
\* without error and change no collection; a table without element yields
\* an empty collection.
C23_TablesCollected ==
    /\ xml_file.wellformed => parsed.status # "raised"
    /\ Parsed =>
        /\ DOMAIN parsed.value[1] = {t[2] : t \in RecognizedTables}
        /\ \A t \in RecognizedTables :
            LET elements == ElementsTagged(t[1])
                collection == parsed.value[1][t[2]]
            IN  /\ Len(collection) = Len(elements)
                /\ \A k \in DOMAIN elements :
                    collection[k] = _element_to_dict(elements[k])

\* a document with a namespaced Espace after a plain one, an unknown
\* element, and no other table
C23_Witness ==
    /\ Parsed
    /\ Len(xml_file.root) = 3
    /\ \E i, j, k \in 1..3 :
        /\ i < j
        /\ xml_file.root[i].tag = <<"Espace">>
        /\ xml_file.root[j].tag = <<SiaNamespace, "Espace">>
        /\ Stripped(xml_file.root[k]) = "Obstacle"
    /\ Len(parsed.value[1].espaces) = 2
    /\ parsed.value[1].parties = <<>>

(***************************************************************************)
(* Properties of the tile generator                                        *)
(***************************************************************************)
Generated == tile_out.op = "generate_all"
\* the types drawn at a zoom level (all of them from zoom 9 on)
DrawnAt(z, espace_type) ==
    IF z <= 5 THEN espace_type \in {"FIR", "TMA"}
    ELSE IF z <= 8 THEN espace_type \in {"TMA", "CTR", "SIV", "D", "R", "P"}
    ELSE TRUE
\* two closed rectangles without common point
Apart(a, b) ==
    \/ RLess(a.lon_max, b.lon_min) \/ RLess(b.lon_max, a.lon_min)
    \/ RLess(a.lat_max, b.lat_min) \/ RLess(b.lat_max, a.lat_min)
\* the query of the tile returns at least one feature
HasFeature(z, x, y) ==
    \E k \in DOMAIN tile_db :
        /\ tile_db[k].geojson # None
        /\ DrawnAt(z, tile_db[k].espace_type)
        /\ ~Apart(tile_db[k].geom_spatial[1], tile_bbox(z, x, y))
TileFiles == {f.path : f \in tiles_dir} \ {TilesetFile}

\* C24: generate_all writes the tile file for (z, x, y) if and only if the
\* query of that tile returned at least one feature, and the count it
\* returns is the number of tile files written over all zoom levels.
C24_SparseTiles ==
    Generated =>
        /\ \A t \in TileCoordinates :
            (TilePath(t[1], t[2], t[3]) \in TileFiles) <=> HasFeature(t[1], t[2], t[3])
        /\ TileFiles \subseteq {TilePath(t[1], t[2], t[3]) : t \in TileCoordinates}
        /\ tile_out.value = Cardinality(TileFiles)

\* a database whose tiles of one zoom level are some written and some not,
\* with a row that matches a tile but gives no feature there
C24_Witness ==
    /\ Generated
    /\ tile_out.value >= 2
    /\ \E t \in TileCoordinates :
        /\ t[1] = MaxZoom
        /\ TilePath(t[1], t[2], t[3]) \notin TileFiles
        /\ \E k \in DOMAIN tile_db :
            ~Apart(tile_db[k].geom_spatial[1], tile_bbox(t[1], t[2], t[3]))
    /\ \E t \in TileCoordinates :
        t[1] = MaxZoom /\ TilePath(t[1], t[2], t[3]) \in TileFiles

BboxAnswered == tile_out.op = "tile_bbox"
BboxZ == tile_out.args[1]
BboxX == tile_out.args[2]
BboxY == tile_out.args[3]
\* -180 + 360 * x / 2^z
WestEdge(z, x) == RAdd(RInt(-180), Norm(360 * x, Pow2(z)))

\* C25: tile_bbox returns lon_min = -180 + 360 x / 2^z and lon_max = -180 +
\* 360 (x+1) / 2^z with lon_min < lon_max and lat_min < lat_max; tiles
\* adjacent in x share their longitude edge and tiles adjacent in y their
\* latitude edge, the first column starts at -180 and the last ends at 180,
\* and tile (0, 0, 0) spans exactly [-180, 180].
C25_TileBbox ==
    BboxAnswered =>
        LET b == tile_out.value
            n == Pow2(BboxZ)
        IN  /\ b.lon_min = WestEdge(BboxZ, BboxX)
            /\ b.lon_max = WestEdge(BboxZ, BboxX + 1)
            /\ RLess(b.lon_min, b.lon_max)
            /\ RLess(b.lat_min, b.lat_max)
            /\ BboxX + 1 < n => tile_bbox(BboxZ, BboxX + 1, BboxY).lon_min = b.lon_max
            /\ BboxY + 1 < n => tile_bbox(BboxZ, BboxX, BboxY + 1).lat_max = b.lat_min
            /\ BboxX = 0 => b.lon_min = RInt(-180)
            /\ BboxX = n - 1 => b.lon_max = RInt(180)
            /\ tile_out.args = <<0, 0, 0>>
                => b.lon_min = RInt(-180) /\ b.lon_max = RInt(180)

\* a tile with a neighbour to the east and one to the south
C25_Witness ==
    /\ BboxAnswered
    /\ BboxZ = MaxZoom
    /\ BboxX + 1 < Pow2(BboxZ) /\ BboxY + 1 < Pow2(BboxZ)
    /\ BboxX > 0 /\ BboxY > 0

(***************************************************************************)
(* Properties of the repositories                                          *)
(***************************************************************************)
PersistedRoutes == {d \in firestore : d.collection = "routes"}

Resolves(route, k) ==
    route.data[k] \in DocIds(firestore, route.user, "user_waypoints")

\* C26: in every state reachable through save_with_waypoints and the create
\* and delete operations of the repositories, each waypoint reference of a
\* persisted route resolves to a persisted waypoint of the same user
C26_ReferencesResolve ==
    \A route \in PersistedRoutes : \A k \in DOMAIN route.data : Resolves(route, k)

\* a route saved together with its waypoints, one of which was deleted since
C26_DanglingAfterDelete ==
    /\ repo_out.op = "delete_waypoint"
    /\ \E route \in PersistedRoutes : \E k \in DOMAIN route.data : ~Resolves(route, k)

(***************************************************************************)
(* Properties of the built store as read by the query engine               *)
(***************************************************************************)
FreshlyBuilt ==
    /\ Len(builds) = 1
    /\ builds[1].raised = "ok"

\* C27: every table and column the query engine reads (the view's geometry,
\* altitude-band, name, type, class and key columns; the Service and
\* Frequence link and sector-qualifier columns) exists under the same name in
\* the store produced by build, so that no query on a freshly built store
\* fails for a missing table or column
C27_SchemaMatches ==
    FreshlyBuilt =>
        Missing(Schema(db_file[1]), ViewReads \cup ServiceReads) = {}

\* a freshly built store on which the SELECT of _query_segment names a
\* column the view does not have
C27_GeometryColumnMissing ==
    /\ FreshlyBuilt
    /\ <<"airspace_spatial_indexed", "geometry">>
            \in Missing(Schema(db_file[1]), ViewReads)

(***************************************************************************)
(* Properties of the parent links of the inserted rows                     *)
(***************************************************************************)
\* the link of a child row, given the keys of the parent records in input
\* order (their rows have the surrogate keys 1, 2, ... in a new file) and the
\* key the child record names: the surrogate key of every parent of that
\* key, and null when no parent has it
LinkHolds(link, keys, named) ==
    /\ \A j \in DOMAIN keys : keys[j] = named => link = <<j>>
    /\ (\A j \in DOMAIN keys : keys[j] # named) => link = None

KeysOfEspaces == [j \in DOMAIN builds[1].data.espaces |-> EspaceKey(builds[1].data.espaces[j])]
KeysOfParties == [j \in DOMAIN builds[1].data.parties |-> PartieKey(builds[1].data.parties[j])]
KeysOfServices == [j \in DOMAIN builds[1].data.services |-> ServiceKey(builds[1].data.services[j])]
KeysOfAds == [j \in DOMAIN builds[1].data.aerodromes |-> builds[1].data.aerodromes[j].AdCode]

\* C28: after the insert step of a build, every child row (Partie, Volume,
\* Geometrie, Frequence, Rwy) whose record names a parent present in the
\* input, by whichever of the supported key fields, holds the surrogate key
\* of exactly that parent's row, and a child naming no known parent holds a
\* null link, the build not failing; for Frequence also when several Service
\* records share one IndicLieu
C28_LinksResolve ==
    Len(builds) = 1 =>
        /\ builds[1].raised = "ok"
        /\ \A k \in DOMAIN builds[1].data.parties :
            LinkHolds(db_file[1].Partie[k].espace_pk, KeysOfEspaces,
                      EspaceOf(builds[1].data.parties[k]))
        /\ \A k \in DOMAIN builds[1].data.volumes :
            LinkHolds(db_file[1].Volume[k].partie_pk, KeysOfParties,
                      PartieOf(builds[1].data.volumes[k]))
        /\ \A k \in DOMAIN builds[1].data.geometries :
            LinkHolds(db_file[1].Geometrie[k].partie_pk, KeysOfParties,
                      PartieOf(builds[1].data.geometries[k]))
        /\ \A k \in DOMAIN builds[1].data.frequencies :
            LinkHolds(db_file[1].Frequence[k].service_pk, KeysOfServices,
                      ServiceOf(builds[1].data.frequencies[k]))
        /\ \A k \in DOMAIN builds[1].data.runways :
            LinkHolds(db_file[1].Rwy[k].ad_pk, KeysOfAds,
                      builds[1].data.runways[k].AdCode)

\* the same for the children of Espace, Partie and Ad only
C28_LinksResolveButFrequence ==
    Len(builds) = 1 =>
        /\ builds[1].raised = "ok"
        /\ \A k \in DOMAIN builds[1].data.parties :
            LinkHolds(db_file[1].Partie[k].espace_pk, KeysOfEspaces,
                      EspaceOf(builds[1].data.parties[k]))
        /\ \A k \in DOMAIN builds[1].data.volumes :
            LinkHolds(db_file[1].Volume[k].partie_pk, KeysOfParties,
                      PartieOf(builds[1].data.volumes[k]))
        /\ \A k \in DOMAIN builds[1].data.geometries :
            LinkHolds(db_file[1].Geometrie[k].partie_pk, KeysOfParties,
                      PartieOf(builds[1].data.geometries[k]))
        /\ \A k \in DOMAIN builds[1].data.runways :
            LinkHolds(db_file[1].Rwy[k].ad_pk, KeysOfAds,
                      builds[1].data.runways[k].AdCode)

\* two Service records of one IndicLieu, and a Frequence naming that
\* IndicLieu linked to the second of them only
C28_SharedIndicLieu ==
    /\ Len(builds) = 1
    /\ KeysOfServices[1] = KeysOfServices[2]
    /\ ServiceOf(builds[1].data.frequencies[1]) = KeysOfServices[1]
    /\ db_file[1].Frequence[1].service_pk = <<2>>

(***************************************************************************)
(* Properties of the connections of concurrent calls                       *)
(***************************************************************************)
InProgress(t) == calls[t].pc \in {"loading", "querying", "closing"}

ConnectionsOf(call) == {c \in DOMAIN conns : conns[c].call = call}

\* C29: each call of query_segment_airspaces or analyze_route opens exactly
\* one connection of its own and shares it with no other call; that
\* connection is closed by the time the call returns or raises, also when
\* loading the spatial extension or a query fails; concurrent calls never use
\* a common connection, and none writes to the store
C29_OwnConnectionClosed ==
    /\ \A t \in Threads :
        calls[t].pc # "idle" /\ calls[t].error # "SpatiaLiteNotReadyError" =>
            ConnectionsOf(calls[t].call) = {calls[t].conn}
    /\ \A c \in DOMAIN conns :
        /\ conns[c].users \subseteq {conns[c].call}
        /\ conns[c].mode = "ro"
        /\ conns[c].open => \E t \in Threads : calls[t].conn = c /\ InProgress(t)

\* the same, but for the calls that raise because the extension did not load
C29_ClosedUnlessLoadFails ==
    /\ \A t \in Threads :
        calls[t].pc # "idle" /\ calls[t].error # "SpatiaLiteNotReadyError" =>
            ConnectionsOf(calls[t].call) = {calls[t].conn}
    /\ \A c \in DOMAIN conns :
        /\ conns[c].users \subseteq {conns[c].call}
        /\ conns[c].mode = "ro"
        /\ conns[c].open /\ conns[c].users # {} =>
                \E t \in Threads : calls[t].conn = c /\ InProgress(t)
    /\ \A t \in Threads :
        calls[t].pc = "done" /\ calls[t].error # "RuntimeError" =>
            \A c \in ConnectionsOf(calls[t].call) : ~conns[c].open

\* a call has raised RuntimeError and the connection it opened is open
C29_OpenAfterLoadFailure ==
    \E t \in Threads :
        /\ calls[t].pc = "done"
        /\ calls[t].error = "RuntimeError"
        /\ conns[calls[t].conn].open

(***************************************************************************)
(* Properties of the schema detection of the aerodrome service             *)
(***************************************************************************)
\* C30: on one instance of the query service the schema variant is probed at
\* most once, by the first query that obtains a connection, and every later
\* query, sequential or concurrent, uses the cached variant without probing
\* again
C30_ProbedOnce ==
    /\ probes.count <= 1
    /\ \A t \in Threads : ad_calls[t].pc = "done" => ad_calls[t].used = ad_store

\* the same for queries that do not overlap
C30_ProbedOnceWhenSequential ==
    /\ ~probes.overlapped => probes.count <= 1
    /\ \A t \in Threads : ad_calls[t].pc = "done" => ad_calls[t].used = ad_store

\* two queries of the instance have each probed the schema
C30_ProbedTwice ==
    /\ probes.count = 2
    /\ probes.started = 2

====
